---- MODULE Spec2Model ----
(***************************************************************************)
(* Hook-stage executor of prebid-server (hooks/hookexecution).             *)
(*                                                                         *)
(* One hookExecutor serves one request.  A stage operation asks the plan   *)
(* builder for the plan of the stage; an empty plan returns at once, a     *)
(* non-empty plan is run group by group: the hooks of a group run in       *)
(* parallel and answer in any order, or are cut off by the group timeout;  *)
(* then the answers are handled, the payload is updated and the next       *)
(* group starts, or the stage is rejected.                                 *)
(***************************************************************************)
EXTENDS Integers, Sequences, FiniteSets, TLC

\* ------------------------------------------------------------------------
\* Bounds of the model
\* ------------------------------------------------------------------------
MaxGroups == 2
MaxHooks == 2
MaxPlanHooks == 3

\* ------------------------------------------------------------------------
\* Names and constants of the program
\* ------------------------------------------------------------------------
Nil == "nil"

\* A nil *RejectError
NoReject == [Nil |-> TRUE]

\* No payload: no stage operation has run yet
NoPayload == [Request |-> <<>>, Body |-> <<>>]

\* A nil ModuleContext
NoContext == "nil"

EndpointAuction == "/openrtb2/auction"

entityHttpRequest == "http-request"
entityAuctionRequest == "auction-request"

StageEntrypoint == "entrypoint"
StageRawAuction == "rawauction"
StageBidderRequest == "bidrequest"
StageRawBidderResponse == "rawbidresponse"

StageNames == {StageEntrypoint, StageRawAuction, StageBidderRequest, StageRawBidderResponse}

TheBidder == "the-bidder"

StatusSuccess == "success"
StatusTimeout == "timeout"
StatusExecutionFailure == "execution-failure"
StatusExecutionError == "execution-error"

ActionNone == "none"
ActionUpdate == "update"
ActionReject == "reject"

MutationUpdate == "update"
MutationDelete == "delete"

\* ------------------------------------------------------------------------
\* Hooks: what a hook answers when it is called.  A ChangeSet is a sequence
\* of mutations; a mutation has a type, a key and a function on the
\* payload, which either fails or changes one field of the payload.
\* ------------------------------------------------------------------------
Mutation(type, key, field, err) ==
    [Type |-> type, Key |-> key, Field |-> field, Err |-> err]

HookResult(reject, message, changeSet, moduleContext) ==
    [Reject |-> reject, Message |-> message, ChangeSet |-> changeSet,
     ModuleContext |-> moduleContext, DebugMessages |-> <<>>]

EmptyResult == HookResult(FALSE, "", <<>>, NoContext)

mockUpdateHeaderEntrypointHook ==
    [Result |-> HookResult(FALSE, "",
                   <<Mutation(MutationUpdate, <<"header", "foo">>, "Request", "")>>,
                   NoContext),
     Err |-> Nil]

mockUpdateQueryEntrypointHook ==
    [Result |-> HookResult(FALSE, "",
                   <<Mutation(MutationUpdate, <<"param", "foo">>, "Request", "")>>,
                   NoContext),
     Err |-> Nil]

mockUpdateBodyHook ==
    [Result |-> HookResult(FALSE, "",
                   <<Mutation(MutationUpdate, <<"body", "foo">>, "Body", ""),
                     Mutation(MutationDelete, <<"body", "name">>, "Body", "")>>,
                   NoContext),
     Err |-> Nil]

mockRejectHook == [Result |-> HookResult(TRUE, "", <<>>, NoContext), Err |-> Nil]

\* The hook that answers after the timeout of its group; what it changes
\* depends on the stage.
mockTimeoutHook(stageName) ==
    [Result |-> HookResult(FALSE, "",
                   <<IF stageName = StageEntrypoint
                     THEN Mutation(MutationUpdate, <<"param", "bar">>, "Request", "")
                     ELSE IF stageName = StageRawAuction
                     THEN Mutation(MutationUpdate, <<"param", "address">>, "Body", "")
                     ELSE Mutation(MutationUpdate,
                                   <<"bidderResponse", "bidMeta.AdapterCode">>, "Body", "")>>,
                   NoContext),
     Err |-> Nil]

\* The hook that changes the bids of a bidder's response.
mockUpdateBidderResponseHook ==
    [Result |-> HookResult(FALSE, "",
                   <<Mutation(MutationUpdate, <<"bidderResponse", "bid.deal-priority">>,
                              "Body", "")>>,
                   NoContext),
     Err |-> Nil]

\* mockModuleContextHook{key, val}: the hook hands back the context
\* {key: val}; the tests make it with key = val.
mockModuleContextHook(val) ==
    [Result |-> HookResult(FALSE, "", <<>>, val), Err |-> Nil]

mockModuleContextHook1 == mockModuleContextHook("some-ctx-1")

mockModuleContextHook2 == mockModuleContextHook("some-ctx-2")

\* A second hook of the module of the first, with a context of its own.
mockModuleContextHook3 == mockModuleContextHook("some-ctx-3")

\* The hook fails with a FailureError; its result is empty.
mockFailureHook == [Result |-> EmptyResult, Err |-> "failure"]

\* The hook fails with another error; its result is empty.
mockErrorHook == [Result |-> EmptyResult, Err |-> "error"]

\* The only mutation of the hook fails.
mockFailedMutationHook ==
    [Result |-> HookResult(FALSE, "",
                   <<Mutation(MutationUpdate, <<"header", "foo">>, "Request",
                              "key not found")>>,
                   NoContext),
     Err |-> Nil]

\* Hooks of modules other than the mocks: any type with the Handle method of
\* a stage is a hook of that stage, and what it hands back is up to it.
\* A hook that fails with a FailureError and hands back a ChangeSet all the
\* same.
failingHookWithChangeSet ==
    [Result |-> HookResult(FALSE, "",
                   <<Mutation(MutationUpdate, <<"body", "failed">>, "Body", "")>>,
                   NoContext),
     Err |-> "failure"]

\* A hook whose first mutation fails and whose second works.
partlyFailedMutationHook ==
    [Result |-> HookResult(FALSE, "",
                   <<Mutation(MutationUpdate, <<"header", "foo">>, "Request", "key not found"),
                     Mutation(MutationUpdate, <<"body", "bar">>, "Body", "")>>,
                   NoContext),
     Err |-> Nil]

\* The hooks of a module that handles every stage alike: each answers at
\* every stage as the hook it is defined by.
AnyStageHook ==
    [updateRequestHook |-> mockUpdateHeaderEntrypointHook,
     updateBodyHook |-> mockUpdateBodyHook,
     rejectHook |-> mockRejectHook,
     contextHook1 |-> mockModuleContextHook1,
     contextHook2 |-> mockModuleContextHook2,
     contextHook3 |-> mockModuleContextHook3,
     failureHook |-> failingHookWithChangeSet,
     errorHook |-> mockErrorHook,
     mutationHook |-> partlyFailedMutationHook]

\* The handler of a stage operation: it calls the method of the hook that
\* handles the stage, and gives what the hook returns.  A mock handles the
\* stages it has a method for.
handler(stageName, hook) ==
    CASE hook = "mockUpdateHeaderEntrypointHook" /\ stageName = StageEntrypoint ->
             mockUpdateHeaderEntrypointHook
      [] hook = "mockUpdateQueryEntrypointHook" /\ stageName = StageEntrypoint ->
             mockUpdateQueryEntrypointHook
      [] hook = "mockUpdateBodyHook" /\ stageName \in {StageEntrypoint, StageRawAuction} ->
             mockUpdateBodyHook
      [] hook = "mockRejectHook"
            /\ stageName \in {StageEntrypoint, StageRawAuction, StageRawBidderResponse} ->
             mockRejectHook
      [] hook = "mockTimeoutHook"
            /\ stageName \in {StageEntrypoint, StageRawAuction, StageRawBidderResponse} ->
             mockTimeoutHook(stageName)
      [] hook = "mockUpdateBidderResponseHook" /\ stageName = StageRawBidderResponse ->
             mockUpdateBidderResponseHook
      [] hook = "mockModuleContextHook1"
            /\ stageName \in {StageEntrypoint, StageRawAuction, StageRawBidderResponse} ->
             mockModuleContextHook1
      [] hook = "mockModuleContextHook2"
            /\ stageName \in {StageEntrypoint, StageRawAuction, StageRawBidderResponse} ->
             mockModuleContextHook2
      [] hook = "mockModuleContextHook3"
            /\ stageName \in {StageEntrypoint, StageRawAuction, StageRawBidderResponse} ->
             mockModuleContextHook3
      [] hook = "mockFailureHook" /\ stageName \in {StageEntrypoint, StageRawAuction} ->
             mockFailureHook
      [] hook = "mockErrorHook" /\ stageName \in {StageEntrypoint, StageRawAuction} ->
             mockErrorHook
      [] hook = "mockFailedMutationHook"
            /\ stageName \in {StageEntrypoint, StageRawAuction} ->
             mockFailedMutationHook
      [] hook \in DOMAIN AnyStageHook -> AnyStageHook[hook]

\* hooks.HookWrapper: the hook of a module, with its code.
HookWrapper(module, code, hook) == [Module |-> module, Code |-> code, Hook |-> hook]

\* The hook of the wrapper w is called at the stage: w with what the hook
\* answered.
executeHook(stageName, w) == [w EXCEPT !.Hook = handler(stageName, w.Hook)]

Modules == {"foobar", "module-1", "module-2"}

\* ------------------------------------------------------------------------
\* Plans: a plan is a sequence of groups, a group a sequence of hooks.
\* ------------------------------------------------------------------------
Group(hooks) == [Hooks |-> hooks]

\* The hooks a plan of a stage is made of.  For the raw auction stage they
\* are the mocks that handle it; for the other stages they are hooks that
\* handle every stage.
\* The hooks that change the request, change the body, reject, and fail.
MutationHooks(stageName) ==
    IF stageName = StageRawAuction
    THEN { HookWrapper("foobar", "foo", "mockUpdateBodyHook"),
           HookWrapper("foobar", "baz", "mockTimeoutHook"),
           HookWrapper("foobar", "bar", "mockRejectHook"),
           HookWrapper("foobar", "fail", "mockFailureHook") }
    ELSE { HookWrapper("foobar", "foo", "updateRequestHook"),
           HookWrapper("foobar", "baz", "updateBodyHook"),
           HookWrapper("foobar", "bar", "rejectHook"),
           HookWrapper("foobar", "fail", "failureHook") }

\* The hooks that fail: with a failure, with another error, with a mutation
\* that fails; and a hook that works and one that rejects.
FaultyHooks(stageName) ==
    IF stageName = StageRawAuction
    THEN { HookWrapper("foobar", "fail", "mockFailureHook"),
           HookWrapper("foobar", "err", "mockErrorHook"),
           HookWrapper("module-2", "mut", "mockFailedMutationHook"),
           HookWrapper("foobar", "baz", "mockUpdateBodyHook"),
           HookWrapper("foobar", "bar", "mockRejectHook") }
    ELSE { HookWrapper("foobar", "fail", "failureHook"),
           HookWrapper("foobar", "err", "errorHook"),
           HookWrapper("module-2", "mut", "mutationHook"),
           HookWrapper("foobar", "baz", "updateBodyHook"),
           HookWrapper("foobar", "bar", "rejectHook") }

\* The hooks that hand back a module context (two of them are hooks of
\* module-1), a hook of module-2 that hands back none, and one that rejects.
ContextHooks(stageName) ==
    IF stageName = StageRawAuction
    THEN { HookWrapper("module-1", "ctx", "mockModuleContextHook1"),
           HookWrapper("module-1", "ctx3", "mockModuleContextHook3"),
           HookWrapper("module-2", "ctx2", "mockModuleContextHook2"),
           HookWrapper("module-2", "mut", "mockFailedMutationHook"),
           HookWrapper("foobar", "bar", "mockRejectHook") }
    ELSE { HookWrapper("module-1", "ctx", "contextHook1"),
           HookWrapper("module-1", "ctx3", "contextHook3"),
           HookWrapper("module-2", "ctx2", "contextHook2"),
           HookWrapper("module-2", "mut", "mutationHook"),
           HookWrapper("foobar", "bar", "rejectHook") }

SeqsOf(S, lo, hi) == UNION {[1..n -> S] : n \in lo..hi}

GroupsOver(hooks) == {Group(hs) : hs \in SeqsOf(hooks, 1, MaxHooks)}

RECURSIVE PlanHooks(_)
PlanHooks(p) == IF p = <<>> THEN 0 ELSE Len(Head(p).Hooks) + PlanHooks(Tail(p))

\* The plans of exactly n groups of the hooks.
RECURSIVE PlansOver(_, _)
PlansOver(hooks, n) ==
    IF n = 0 THEN {<<>>}
    ELSE {Append(pg[1], pg[2]) :
            pg \in {x \in PlansOver(hooks, n - 1) \X GroupsOver(hooks) :
                        PlanHooks(x[1]) + Len(x[2].Hooks) <= MaxPlanHooks}}

\* The plans of the hooks for a stage: of up to MaxGroups groups for the
\* entrypoint stage, of at most one group for the stages after it.
PlansOf(hooks, stageName) ==
    UNION {PlansOver(hooks, n) :
              n \in 0..(IF stageName = StageEntrypoint THEN MaxGroups ELSE 1)}

\* hooks.EmptyPlanBuilder: no plan for any stage.
EmptyPlanBuilder == <<>>

\* The plans of the plan builders of the tests; each embeds
\* hooks.EmptyPlanBuilder, which plans the stages it does not plan itself.
TestApplyHookMutationsBuilder(stageName) ==
    IF stageName = StageEntrypoint
    THEN <<Group(<<HookWrapper("foobar", "foo", "mockUpdateHeaderEntrypointHook"),
                   HookWrapper("foobar", "bar", "mockUpdateQueryEntrypointHook")>>),
           Group(<<HookWrapper("foobar", "baz", "mockUpdateBodyHook")>>)>>
    ELSE IF stageName = StageRawAuction
    THEN <<Group(<<HookWrapper("foobar", "foo", "mockUpdateBodyHook")>>)>>
    ELSE IF stageName = StageRawBidderResponse
    THEN <<Group(<<HookWrapper("foobar", "foo", "mockUpdateBidderResponseHook")>>)>>
    ELSE EmptyPlanBuilder

TestRejectPlanBuilder(stageName) ==
    IF stageName = StageEntrypoint
    THEN <<Group(<<HookWrapper("foobar", "foo", "mockUpdateHeaderEntrypointHook")>>),
           Group(<<HookWrapper("foobar", "bar", "mockRejectHook")>>)>>
    ELSE IF stageName = StageRawAuction
    THEN <<Group(<<HookWrapper("foobar", "foo", "mockUpdateBodyHook")>>),
           Group(<<HookWrapper("foobar", "bar", "mockRejectHook")>>)>>
    ELSE IF stageName = StageRawBidderResponse
    THEN <<Group(<<HookWrapper("foobar", "foo", "mockRejectHook")>>)>>
    ELSE EmptyPlanBuilder

TestWithTimeoutPlanBuilder(stageName) ==
    IF stageName = StageEntrypoint
    THEN <<Group(<<HookWrapper("foobar", "foo", "mockUpdateHeaderEntrypointHook"),
                   HookWrapper("foobar", "bar", "mockTimeoutHook")>>),
           Group(<<HookWrapper("foobar", "baz", "mockUpdateBodyHook")>>)>>
    ELSE IF stageName = StageRawAuction
    THEN <<Group(<<HookWrapper("foobar", "foo", "mockUpdateBodyHook")>>),
           Group(<<HookWrapper("foobar", "bar", "mockTimeoutHook")>>)>>
    ELSE IF stageName = StageRawBidderResponse
    THEN <<Group(<<HookWrapper("foobar", "foo", "mockTimeoutHook")>>),
           Group(<<HookWrapper("foobar", "bar", "mockUpdateBidderResponseHook")>>)>>
    ELSE EmptyPlanBuilder

TestWithModuleContextsPlanBuilder(stageName) ==
    IF stageName \in {StageEntrypoint, StageRawAuction, StageRawBidderResponse}
    THEN <<Group(<<HookWrapper("module-1", "foo", "mockModuleContextHook1")>>),
           Group(<<HookWrapper("module-2", "bar", "mockModuleContextHook2")>>)>>
    ELSE EmptyPlanBuilder

\* A builder that plans the two bidder stages alike: a group whose hook
\* hands back a module context, then a group whose hook rejects.
BidderStagesPlan ==
    <<Group(<<HookWrapper("module-1", "ctx", "contextHook1")>>),
      Group(<<HookWrapper("foobar", "bar", "rejectHook")>>)>>

\* The plan builders an executor is made with.
MutationsPlanBuilder == "mutations"
FaultsPlanBuilder == "faults"
ContextsPlanBuilder == "contexts"
BidderStagesPlanBuilder == "bidder-stages"
EmptyBuilder == "EmptyPlanBuilder"
ApplyHookMutationsBuilder == "TestApplyHookMutationsBuilder"
RejectPlanBuilder == "TestRejectPlanBuilder"
WithTimeoutPlanBuilder == "TestWithTimeoutPlanBuilder"
WithModuleContextsPlanBuilder == "TestWithModuleContextsPlanBuilder"

TestBuilders ==
    {ApplyHookMutationsBuilder, RejectPlanBuilder, WithTimeoutPlanBuilder,
     WithModuleContextsPlanBuilder}

\* The plans the builder may answer when it is asked for the plan of the
\* stage for the account; the builders of the tests do not look at the
\* account.
PlansFor(builder, stageName, acc) ==
    IF builder = MutationsPlanBuilder THEN PlansOf(MutationHooks(stageName), stageName)
    ELSE IF builder = FaultsPlanBuilder THEN PlansOf(FaultyHooks(stageName), stageName)
    ELSE IF builder = ContextsPlanBuilder THEN PlansOf(ContextHooks(stageName), stageName)
    ELSE IF builder = BidderStagesPlanBuilder
    THEN {IF stageName \in {StageBidderRequest, StageRawBidderResponse}
          THEN BidderStagesPlan ELSE EmptyPlanBuilder}
    ELSE IF builder = ApplyHookMutationsBuilder
    THEN {TestApplyHookMutationsBuilder(stageName)}
    ELSE IF builder = RejectPlanBuilder THEN {TestRejectPlanBuilder(stageName)}
    ELSE IF builder = WithTimeoutPlanBuilder THEN {TestWithTimeoutPlanBuilder(stageName)}
    ELSE IF builder = WithModuleContextsPlanBuilder
    THEN {TestWithModuleContextsPlanBuilder(stageName)}
    ELSE {EmptyPlanBuilder}

\* ------------------------------------------------------------------------
\* State
\* ------------------------------------------------------------------------
VARIABLES
    planBuilder,     \* hookExecutor.planBuilder
    stageOutcomes,   \* hookExecutor.stageOutcomes
    moduleContexts,  \* hookExecutor.moduleContexts: module name -> context
    pc,              \* "idle", "group" (the hooks of a group run), "returned"
    stage,           \* stageName of the stage operation
    executionCtx,    \* the executionContext it made for executeStage
    plan,            \* its plan
    given,           \* the body it was called with
    gi,              \* index of the group that runs, or ran last
    payload,         \* the payload of executeStage
    hookState,       \* the task of each hook of that group
    arrived,         \* the hooks of that group in the order they answered
    outcome,         \* StageOutcome.Groups of the stage operation
    contexts,        \* stageModuleContext: the module contexts of each group
    ret,             \* what the stage operation returned
    before,          \* history: stageOutcomes when the operation was called
    beforeContexts,  \* history: moduleContexts when the operation was called
    applied,         \* history: the mutations applied, in the order applied
    invoked,         \* history: the hook invocations with the payload they got
    late             \* the hooks that were given up, and whether they returned since

\* requestBid of a bidderAdapter (exchange/bidder.go)
VARIABLES
    bidderRequest,   \* the BidderRequest that requestBid is called with
    adapter,         \* what the adapters.Bidder and the bidder's server answer
    options,         \* conversions, bidRequestOptions, alternateBidderCodes, config
    at,              \* "idle", "stage" (it waits for the bidder request stage),
                     \* "drain" (the loop over the channel), "returned"
    tasks,           \* the tasks that will send a call result to the channel
    responseChannel, \* the call results in the channel, and its capacity
    dataLen,         \* the number of call results the loop takes
    reqData,         \* the requests of the adapter, with the headers they are sent with
    seatBidMap,      \* seat name -> pbsOrtbSeatBid
    errs,            \* the errors collected
    result,          \* what requestBid returned
    received,        \* history: the call results taken from the channel
    calls            \* history: the calls made to the adapter, the server, the hooks

\* Stage operations called from several tasks at once, and what is made of
\* the outcomes at the end of the request
VARIABLES
    mutex,           \* hookExecutor.Mutex: the execution that holds it, or NoHolder
    executions,      \* the stage operations that tasks run side by side
    bidRequest,      \* the openrtb2.BidRequest of the request (Test, Ext)
    account,         \* hookExecutor.account, the config.Account of the request
    ext              \* what each call of EnrichExtBidResponse returned

\* The variables of a stage operation in steps.
stageVars == <<pc, stage, executionCtx, plan, given, gi, payload,
               hookState, arrived, outcome, contexts, ret, before, beforeContexts,
               applied, invoked, late>>

bidderVars == <<bidderRequest, adapter, options, at, tasks, responseChannel, dataLen, reqData,
                seatBidMap, errs, result, received, calls>>

sideVars == <<mutex, executions, bidRequest, account, ext>>

vars == <<planBuilder, stageOutcomes, moduleContexts, stageVars, bidderVars, sideVars>>

\* ------------------------------------------------------------------------
\* Messages
\* ------------------------------------------------------------------------
RECURSIVE Join(_, _)
Join(strs, sep) ==
    IF Len(strs) = 0 THEN ""
    ELSE IF Len(strs) = 1 THEN strs[1]
    ELSE strs[1] \o sep \o Join(Tail(strs), sep)

MutationAppliedMsg(m) ==
    "Hook mutation successfully applied, affected key: " \o Join(m.Key, ".")
        \o ", mutation type: " \o m.Type

MutationFailedMsg(m) == "failed to apply hook mutation: " \o m.Err

RejectMsg(reason) == "Module rejected stage, reason: \"" \o reason \o "\""

TimeoutMsg == "Hook execution timeout"

FailureMsg == "hook execution failed: attribute not found"

ErrorMsg == "unexpected error"

\* ------------------------------------------------------------------------
\* One hook answer
\* ------------------------------------------------------------------------
\* A mutation that does not fail changes the field it addresses; the change
\* is kept as the key it wrote, so that the order of the changes shows.
\* The value e, computed once and handed to F.
With(e, F(_)) == CHOOSE y \in {F(x) : x \in {e}} : TRUE

Apply(m, p) == [p EXCEPT ![m.Field] = Append(@, Join(m.Key, "."))]

RECURSIVE handleHookMutationsLastFirst(_, _)
handleHookMutationsLastFirst(changeSet, acc) ==
    IF changeSet = <<>> THEN acc
    ELSE LET m == changeSet[Len(changeSet)]
             next == IF m.Err # ""
                     THEN [acc EXCEPT !.Warnings = Append(@, MutationFailedMsg(m))]
                     ELSE [acc EXCEPT !.Payload = Apply(m, @),
                                      !.DebugMessages = Append(@, MutationAppliedMsg(m)),
                                      !.Done = Append(@, m)]
         IN handleHookMutationsLastFirst(SubSeq(changeSet, 1, Len(changeSet) - 1), next)

RECURSIVE handleHookMutationsUntilError(_, _)
handleHookMutationsUntilError(changeSet, acc) ==
    IF changeSet = <<>> THEN acc
    ELSE LET m == Head(changeSet)
         IN IF m.Err # ""
            THEN [acc EXCEPT !.Warnings = Append(@, MutationFailedMsg(m))]
            ELSE handleHookMutationsUntilError(Tail(changeSet),
                     [acc EXCEPT !.Payload = Apply(m, @),
                                 !.DebugMessages = Append(@, MutationAppliedMsg(m)),
                                 !.Done = Append(@, m)])

RECURSIVE handleHookMutations(_, _)
handleHookMutations(changeSet, acc) ==
    IF changeSet = <<>> THEN acc
    ELSE LET m == Head(changeSet)
             next == IF m.Err # ""
                     THEN [acc EXCEPT !.Warnings = Append(@, MutationFailedMsg(m))]
                     ELSE [acc EXCEPT !.Payload = Apply(m, @),
                                      !.DebugMessages = Append(@, MutationAppliedMsg(m)),
                                      !.Done = Append(@, m)]
         IN handleHookMutations(Tail(changeSet), next)

\* The reject of a hook.  The tests of the three stage operations that
\* reject compare the reject returned for a rejecting hook without message,
\* at the entrypoint, the raw auction and the raw bidder response stage,
\* with the zero RejectError: nothing in it names the stage, and its reason
\* is the message of the hook.
RejectError(hookResult) == [Stage |-> "", Reason |-> hookResult.Message]

HookID(w) == [ModuleCode |-> w.Module, HookImplCode |-> w.Code]

hookResponseAfterDeadline(i, w, timedOut) ==
    [Idx |-> i,
     HookID |-> HookID(w),
     Err |-> w.Hook.Err,
     Result |-> w.Hook.Result]

\* The answer of hook i of a group: what the hook returned, or a timeout.
hookResponse(i, w, timedOut) ==
    [Idx |-> i,
     HookID |-> HookID(w),
     Err |-> IF timedOut THEN "timeout" ELSE w.Hook.Err,
     Result |-> IF timedOut THEN EmptyResult ELSE w.Hook.Result]

handleHookErrorAsError(err) ==
    [Status |-> IF err = "timeout" THEN StatusTimeout ELSE StatusExecutionError,
     Errors |-> <<IF err = "timeout" THEN TimeoutMsg
                  ELSE IF err = "failure" THEN FailureMsg
                  ELSE ErrorMsg>>]

\* The status and the error message of a hook that answered with an error.
handleHookError(err) ==
    [Status |-> IF err = "timeout" THEN StatusTimeout
                ELSE IF err = "failure" THEN StatusExecutionFailure
                ELSE StatusExecutionError,
     Errors |-> <<IF err = "timeout" THEN TimeoutMsg
                  ELSE IF err = "failure" THEN FailureMsg
                  ELSE ErrorMsg>>]

\* One answer: an error of the hook, a reject, or the hook's mutations.
handleHookResponse(stageName, p, r) ==
    LET base == [HookID |-> r.HookID, Status |-> StatusSuccess, Action |-> "",
                 Message |-> r.Result.Message,
                 DebugMessages |-> r.Result.DebugMessages,
                 Errors |-> <<>>, Warnings |-> <<>>]
    IN  IF r.Err # Nil
        THEN [Payload |-> p, Reject |-> NoReject, Done |-> <<>>,
              Outcome |-> [base EXCEPT !.Status = handleHookError(r.Err).Status,
                                       !.Errors = handleHookError(r.Err).Errors]]
        ELSE IF r.Result.Reject
        THEN [Payload |-> p, Reject |-> RejectError(r.Result), Done |-> <<>>,
              Outcome |-> [base EXCEPT !.Action = ActionReject,
                                       !.Errors = <<RejectMsg(r.Result.Message)>>]]
        ELSE IF r.Result.ChangeSet = <<>>
        THEN [Payload |-> p, Reject |-> NoReject, Done |-> <<>>,
              Outcome |-> [base EXCEPT !.Action = ActionNone]]
        ELSE With(handleHookMutations(r.Result.ChangeSet,
                          [Payload |-> p, DebugMessages |-> base.DebugMessages,
                           Warnings |-> <<>>, Done |-> <<>>]),
                  LAMBDA a :
                    [Payload |-> a.Payload, Reject |-> NoReject, Done |-> a.Done,
                     Outcome |-> [base EXCEPT !.Action = ActionUpdate,
                                              !.DebugMessages = a.DebugMessages,
                                              !.Warnings = a.Warnings]])

\* ------------------------------------------------------------------------
\* One group
\* ------------------------------------------------------------------------
\* The answers collected from a group.  They arrived in the order arr; they
\* are handled in the order of the hooks of the group.
RECURSIVE inHookOrder(_, _, _)
inHookOrder(hooks, hs, i) ==
    IF i > Len(hooks) THEN <<>>
    ELSE IF hs[i] \in {"done", "timeout"}
         THEN <<hookResponse(i, hooks[i], hs[i] = "timeout")>>
                  \o inHookOrder(hooks, hs, i + 1)
         ELSE inHookOrder(hooks, hs, i + 1)

collectHookResponsesAsArrived(hooks, hs, arr) ==
    [k \in 1..Len(arr) |->
        hookResponse(arr[k], hooks[arr[k]], hs[arr[k]] = "timeout")]

collectHookResponses(hooks, hs, arr) == inHookOrder(hooks, hs, 1)

\* The answers are handled one after another, each on the payload the one
\* before it left.
RECURSIVE handleHookResponses(_, _, _)
handleHookResponses(stageName, responses, acc) ==
    IF responses = <<>> THEN acc
    ELSE With(acc, LAMBDA done :
         With(Head(responses), LAMBDA r :
         With(handleHookResponse(stageName, done.Payload, r), LAMBDA h :
            handleHookResponses(stageName, Tail(responses),
                [Payload |-> h.Payload,
                 InvocationResults |-> Append(done.InvocationResults, h.Outcome),
                 Ctx |-> done.Ctx \o <<<<r.HookID.ModuleCode, r.Result.ModuleContext>>>>,
                 Reject |-> IF done.Reject # NoReject THEN done.Reject ELSE h.Reject,
                 Done |-> done.Done \o [k \in 1..Len(h.Done) |-> <<r.Idx, h.Done[k]>>]]))))

executeGroup(stageName, hookHandler, group, hs, arr, p) ==
    handleHookResponses(stageName,
        collectHookResponses([i \in DOMAIN group.Hooks |->
                                 executeHook(hookHandler, group.Hooks[i])], hs, arr),
        [Payload |-> p, InvocationResults |-> <<>>, Ctx |-> <<>>,
         Reject |-> NoReject, Done |-> <<>>])

\* ------------------------------------------------------------------------
\* The end of a stage operation
\* ------------------------------------------------------------------------
Entity(stageName) ==
    IF stageName = StageEntrypoint THEN entityHttpRequest
    ELSE IF stageName = StageRawAuction THEN entityAuctionRequest
    ELSE TheBidder

RECURSIVE put(_, _)
put(ctxs, pairs) ==
    IF pairs = <<>> THEN ctxs
    ELSE put([ctxs EXCEPT ![Head(pairs)[1]] = Head(pairs)[2]], Tail(pairs))

RECURSIVE saveModuleContexts(_, _)
saveModuleContexts(ctxs, groupCtx) ==
    IF groupCtx = <<>> THEN ctxs
    ELSE saveModuleContexts(put(ctxs, Head(groupCtx)), Tail(groupCtx))

pushStageOutcomeOverwrite(outcomes, o) == <<o>>

pushStageOutcome(outcomes, o) == Append(outcomes, o)

ReturnedNoReject(stageName, p, reject) ==
    [Stage |-> stageName,
     HasBody |-> stageName \in {StageEntrypoint, StageRawAuction},
     Body |-> IF stageName \in {StageEntrypoint, StageRawAuction} THEN p.Body ELSE <<>>,
     Reject |-> NoReject]

\* What the stage operation hands back: the entrypoint and raw auction
\* stages return the body, the bidder stages only the reject.
Returned(stageName, p, reject) ==
    [Stage |-> stageName,
     HasBody |-> stageName \in {StageEntrypoint, StageRawAuction},
     Body |-> IF stageName \in {StageEntrypoint, StageRawAuction} THEN p.Body ELSE <<>>,
     Reject |-> reject]

\* A nil *config.Account.
NilAccount == [Nil |-> TRUE]

\* hookExecutor.accountId: the ID of the account that was set, "" before.
accountId == IF account = NilAccount THEN "" ELSE account.ID

\* The executionContext of a stage: the account and the endpoint of the
\* executor, and the name of the stage.
newContext(stageName) ==
    [account |-> account, accountId |-> accountId, endpoint |-> EndpointAuction,
     stage |-> stageName]

IsEmptyPlanNever(p) == FALSE

IsEmptyPlan(p) == Len(p) = 0

\* ------------------------------------------------------------------------
\* requestBid: the data
\* ------------------------------------------------------------------------
\* A text is a sequence of pieces; the text is the pieces one after another.
\* The piece ImpIdReqBody is the only piece in which that text occurs.
ImpIdReqBody == "Stored bid response for impression id: "

defaultCurrency == "USD"

FailedToRequestBids ==
    [Type |-> "FailedToRequestBids",
     Message |-> "The adapter failed to generate any bid requests, but also failed to generate an error explaining why"]

BadServerResponse(status) == [Type |-> "BadServerResponse", Message |-> status]

Timeout == [Type |-> "Timeout", Message |-> "context deadline exceeded"]

\* A nil error, a nil response of the server, a nil BidderResponse
NoErr == [Type |-> "nil", Message |-> ""]
NoResponse == [StatusCode |-> 0, Body |-> ""]
NilBidResponse == [Nil |-> TRUE]

Warning(code, message) == [Type |-> "Warning", WarningCode |-> code, Message |-> message]

\* The code of a Warning made without one.
UnknownWarningCode == "UnknownWarningCode"

BidderLevelDebugDisabledWarningCode == "BidderLevelDebugDisabledWarningCode"
AlternateBidderCodeWarningCode == "AlternateBidderCodeWarningCode"

\* adapters.RequestData and adapters.TypedBid
RequestData(method, uri, body, headers) ==
    [Method |-> method, Uri |-> uri, Body |-> body, Headers |-> headers]

TypedBid(impId, price, seat) == [Bid |-> [ImpID |-> impId, Price |-> price], Seat |-> seat]

httpCallInfo(request, response, err) ==
    [request |-> request, response |-> response, err |-> err]

\* The synthetic call of a stored response.  As prepareStoredResponse, but
\* the response does not carry the stored bytes.
prepareStoredResponseWithoutBytes(impId, bidResp) ==
    httpCallInfo(RequestData("POST", "", <<ImpIdReqBody>> \o impId, {}),
                 [StatusCode |-> 200, Body |-> ""], NoErr)

prepareStoredResponse(impId, bidResp) ==
    httpCallInfo(RequestData("POST", "", <<ImpIdReqBody>> \o impId, {}),
                 [StatusCode |-> 200, Body |-> bidResp], NoErr)

\* The adapters.Bidder of a bidderAdapter: a bidder, a bidder that is an
\* adapters.TimeoutBidder with the notifier nf, or an
\* adapters.InfoAwareBidder around one of these.
NoNotifier == [Nil |-> TRUE]

PlainBidder == [kind |-> "Bidder", notifier |-> NoNotifier, Bidder |-> <<>>]

TimeoutBidder(nf) == [kind |-> "TimeoutBidder", notifier |-> nf, Bidder |-> <<>>]

InfoAwareBidder(b) == [kind |-> "InfoAwareBidder", notifier |-> NoNotifier, Bidder |-> <<b>>]

\* As unwrap, but the bidder is taken as it is.
unwrapNothing(b) == b

\* The bidder inside an InfoAwareBidder, or the bidder itself.
unwrap(b) == IF b.kind = "InfoAwareBidder" THEN b.Bidder[1] ELSE b

\* The timeout notifications that doRequestImpl starts for the call result
\* info of the n-th request.
timeoutNotifications(bidder, info, n) ==
    IF info.err = Timeout /\ unwrap(bidder).kind = "TimeoutBidder"
    THEN {[kind |-> "notify", n |-> n, impId |-> <<>>]}
    ELSE {}

\* http.NewRequest fails on a method that is not a token.
NewRequestFails(req) == req.Method \notin {"GET", "POST"}

NilRequest == [Nil |-> TRUE]

\* doTimeoutNotification with the notifier nf, which has what
\* MakeTimeoutNotification returns (toReq, errL) and what the server answers
\* to the notification: the notices recorded in the metrics, the messages
\* handed to the logger, and whether it ends in a run-time panic (errL[0]
\* of an empty errL).
doTimeoutNotificationImpl(nf, debug) ==
    IF nf.toReq # NilRequest /\ Len(nf.errL) = 0
    THEN IF ~NewRequestFails(nf.toReq)
         THEN LET success == /\ nf.answer.Err = Nil
                             /\ nf.answer.StatusCode >= 200
                             /\ nf.answer.StatusCode < 300
              IN [notices |-> <<success>>,
                  logs |-> IF debug.Log /\ ~(debug.FailOnly /\ success)
                           THEN <<IF nf.answer.Err = Nil THEN "TimeoutNotification: status"
                                  ELSE "TimeoutNotification: error">>
                           ELSE <<>>,
                  panic |-> FALSE]
         ELSE [notices |-> <<FALSE>>,
               logs |-> IF debug.Log
                        THEN <<"TimeoutNotification: Failed to make timeout request">>
                        ELSE <<>>,
               panic |-> FALSE]
    ELSE IF debug.Log
    THEN IF Len(nf.errL) = 0
         THEN [notices |-> <<>>, logs |-> <<>>, panic |-> TRUE]
         ELSE [notices |-> <<>>,
               logs |-> <<"TimeoutNotification: Failed to generate timeout request">>,
               panic |-> FALSE]
    ELSE [notices |-> <<>>, logs |-> <<>>, panic |-> FALSE]

Gzip == "GZIP"

\* strings.ToUpper on the compressions of the model.
ToUpper(str) == IF str \in {"gzip", "Gzip", "GZIP"} THEN "GZIP" ELSE str

\* The request as doRequestImpl leaves it: with the compression GZIP the
\* body is sent compressed and the request gets the header
\* Content-Encoding; the request keeps the body it had.
compressed(req) ==
    IF ToUpper(options.endpointCompression) = Gzip
    THEN [req EXCEPT !.Headers = @ \cup {"Content-Encoding"}]
    ELSE req

\* The error of http.NewRequest.
NewRequestError == [Type |-> "error", Message |-> "net/http: invalid method"]

\* As doRequestImpl, but a call that ran out of time is reported with the
\* failure of the notification when the notification cannot be made.
doRequestImplWithNotice(req, answer) ==
    IF NewRequestFails(compressed(req))
    THEN httpCallInfo(compressed(req), NoResponse, NewRequestError)
    ELSE IF answer.Err # Nil
    THEN httpCallInfo(compressed(req), NoResponse,
                      IF answer.Err = "deadline"
                      THEN IF unwrap(adapter.Bidder).kind = "TimeoutBidder"
                              /\ unwrap(adapter.Bidder).notifier.toReq = NilRequest
                           THEN [Type |-> "error", Message |-> "no timeout notification"]
                           ELSE Timeout
                      ELSE [Type |-> "error", Message |-> answer.Err])
    ELSE IF answer.ReadErr # Nil
    THEN httpCallInfo(compressed(req), NoResponse,
                      [Type |-> "error", Message |-> answer.ReadErr])
    ELSE httpCallInfo(compressed(req),
                      [StatusCode |-> answer.StatusCode, Body |-> answer.Body],
                      IF answer.StatusCode < 200 \/ answer.StatusCode >= 400
                      THEN BadServerResponse(answer.StatusCode) ELSE NoErr)

\* doRequestImpl: the call result of the request req, which the server
\* answers with answer.  The request that cannot be made is not sent; the
\* call may fail; the body of the response may fail to be read; else the
\* result has the status and the body, and a status below 200 or from 400
\* on is an error.
doRequestImpl(req, answer) ==
    IF NewRequestFails(compressed(req))
    THEN httpCallInfo(compressed(req), NoResponse, NewRequestError)
    ELSE IF answer.Err # Nil
    THEN httpCallInfo(compressed(req), NoResponse,
                      IF answer.Err = "deadline" THEN Timeout
                      ELSE [Type |-> "error", Message |-> answer.Err])
    ELSE IF answer.ReadErr # Nil
    THEN httpCallInfo(compressed(req), NoResponse,
                      [Type |-> "error", Message |-> answer.ReadErr])
    ELSE httpCallInfo(compressed(req),
                      [StatusCode |-> answer.StatusCode, Body |-> answer.Body],
                      IF answer.StatusCode < 200 \/ answer.StatusCode >= 400
                      THEN BadServerResponse(answer.StatusCode) ELSE NoErr)

\* http.CanonicalHeaderKey on the header names of the model: the first
\* letter and the letters after a hyphen in upper case, the others in lower.
CanonicalHeaderKey(h) ==
    IF h \in {"authorization", "AUTHORIZATION", "Authorization"} THEN "Authorization"
    ELSE IF h \in {"content-type", "Content-Type"} THEN "Content-Type"
    ELSE IF h \in {"Sec-GPC", "sec-gpc", "Sec-Gpc"} THEN "Sec-Gpc"
    ELSE h

authorizationHeader == CanonicalHeaderKey("authorization")

\* The headers are the names that are keys of the http.Header map; Del
\* removes the key it is given in canonical form, and no other.
filterHeader(h) == h \ {CanonicalHeaderKey(authorizationHeader)}

makeExt(httpInfo) ==
    [Uri |-> httpInfo.request.Uri,
     RequestBody |-> httpInfo.request.Body,
     RequestHeaders |-> filterHeader(httpInfo.request.Headers),
     ResponseBody |-> IF httpInfo.err = NoErr /\ httpInfo.response # NoResponse
                      THEN httpInfo.response.Body ELSE "",
     Status |-> IF httpInfo.err = NoErr /\ httpInfo.response # NoResponse
                THEN httpInfo.response.StatusCode ELSE 0]

\* regexp.Split(s, -1): the texts between the occurrences of sep in s.
RECURSIVE Split(_, _)
Split(s, sep) ==
    IF \E k \in 1..Len(s) : s[k] = sep
    THEN LET k == CHOOSE n \in 1..Len(s) :
                      s[n] = sep /\ \A j \in 1..(n - 1) : s[j] # sep
         IN <<SubSeq(s, 1, k - 1)>> \o Split(SubSeq(s, k + 1, Len(s)), sep)
    ELSE <<s>>

\* A map of Go read at a key it may not hold: the zero value when it does not.
Lookup(m, k, zero) == IF k \in DOMAIN m THEN m[k] ELSE zero

\* conversions.GetRate: the rate of the table, or an error.
GetRate(conversions, from, to) ==
    IF <<from, to>> \in DOMAIN conversions
    THEN [rate |-> conversions[<<from, to>>], err |-> NoErr]
    ELSE [rate |-> 0, err |-> [Type |-> "ConversionNotFound", Message |-> <<from, to>>]]

\* alternateBidderCodes.IsValidBidderCode
IsValidBidderCode(codes, bidder, alternateBidder) ==
    IF alternateBidder = "" \/ alternateBidder = bidder
    THEN [valid |-> TRUE, err |-> Nil]
    ELSE IF alternateBidder \in codes
    THEN [valid |-> TRUE, err |-> Nil]
    ELSE [valid |-> FALSE, err |-> "invalid biddercode sent by adapter"]

\* What the adapter makes of a response body (adapters.Bidder.MakeBids).
MakeBids(body) ==
    IF body = "usd"
    THEN [bidResponse |-> [Currency |-> "", Bids |-> <<TypedBid(<<"imp-a">>, 5, "")>>],
          errs |-> <<>>]
    ELSE IF body = "eur"
    THEN [bidResponse |-> [Currency |-> "EUR", Bids |-> <<TypedBid(<<"imp-b">>, 3, "")>>],
          errs |-> <<>>]
    ELSE IF body = "eur-alt"
    THEN [bidResponse |-> [Currency |-> "EUR",
                           Bids |-> <<TypedBid(<<"imp-c">>, 2, "alt-seat")>>],
          errs |-> <<>>]
    ELSE IF body = "gbp"
    THEN [bidResponse |-> [Currency |-> "GBP", Bids |-> <<TypedBid(<<"imp-d">>, 7, "")>>],
          errs |-> <<>>]
    ELSE IF body = "usd-bad"
    THEN [bidResponse |-> [Currency |-> "USD",
                           Bids |-> <<TypedBid(<<"imp-e">>, 4, "bad-seat")>>],
          errs |-> <<>>]
    ELSE IF body = "usd-two"
    THEN [bidResponse |-> [Currency |-> "",
                           Bids |-> <<TypedBid(<<"imp-f">>, 6, ""),
                                      TypedBid(<<"imp-g">>, 4, "alt-seat")>>],
          errs |-> <<>>]
    ELSE [bidResponse |-> NilBidResponse, errs |-> <<>>]

\* ------------------------------------------------------------------------
\* requestBid: one call result of the loop over the channel
\* ------------------------------------------------------------------------
\* The first currency of the request with a rate from the currency of the
\* response; acc holds the rate and the error of the last try and the
\* currency of the seat.
RECURSIVE conversionRate(_, _, _, _)
conversionRate(conversions, from, curs, acc) ==
    IF curs = <<>> THEN acc
    ELSE LET r == GetRate(conversions, from, Head(curs))
         IN IF r.err = NoErr
            THEN [rate |-> r.rate, err |-> NoErr, currency |-> Head(curs), found |-> TRUE]
            ELSE conversionRate(conversions, from, Tail(curs),
                     [rate |-> r.rate, err |-> r.err, currency |-> acc.currency,
                      found |-> FALSE])

\* The impression id of a stored response is set back on its bids.
replaceImpIds(bids, request, replace) ==
    [k \in 1..Len(bids) |->
        IF request.Uri = ""
        THEN LET reqImpId == Split(request.Body, ImpIdReqBody)[2]
             IN IF Lookup(replace, reqImpId, FALSE)
                THEN [bids[k] EXCEPT !.Bid.ImpID = reqImpId]
                ELSE bids[k]
        ELSE bids[k]]

\* As adjustmentFactor, but the adjustment of the primary bidder goes first.
adjustmentFactorOfPrimaryFirst(bidAdjustments, bidderName, primary) ==
    IF primary \in DOMAIN bidAdjustments THEN bidAdjustments[primary]
    ELSE IF bidderName \in DOMAIN bidAdjustments THEN bidAdjustments[bidderName]
    ELSE 1

adjustmentFactor(bidAdjustments, bidderName, primary) ==
    IF bidderName \in DOMAIN bidAdjustments THEN bidAdjustments[bidderName]
    ELSE IF primary \in DOMAIN bidAdjustments THEN bidAdjustments[primary]
    ELSE 1

\* As seatOf, but every bid goes to the seat of the primary bidder.
seatOfPrimary(b, primary) == primary

\* The seat of a bid: the seat it claims, or the primary bidder.
seatOf(b, primary) == IF b.Seat # "" THEN b.Seat ELSE primary

\* As finalPrice, but the price is not converted.
finalPriceNotConverted(rawPrice, adjustment, rate) == rawPrice * adjustment

\* The price of a bid in the currency of the seat.
finalPrice(rawPrice, adjustment, rate) == rawPrice * adjustment * rate

\* As dropBid, but without the warning.
dropBidSilently(st, err) == st

\* A bid whose seat is not valid for the primary bidder is left out; the
\* error of the validation becomes a warning.
dropBid(st, err) ==
    IF err # Nil
    THEN [st EXCEPT !.errs = Append(@, Warning(AlternateBidderCodeWarningCode, err))]
    ELSE st

\* The bids of a response are put into the seats they claim.  st has the
\* seat map and the errors; c is the conversion found, n the number of the
\* call result.
RECURSIVE placeBids(_, _, _, _, _, _)
placeBids(bids, st, c, respCur, primary, n) ==
    IF bids = <<>> THEN st
    ELSE LET b == Head(bids)
             bidderName == seatOf(b, primary)
             v == IsValidBidderCode(options.alternateBidderCodes, primary, bidderName)
             seats == IF bidderName \in DOMAIN st.seatBidMap THEN st.seatBidMap
                      ELSE [s \in DOMAIN st.seatBidMap \cup {bidderName} |->
                               IF s = bidderName
                               THEN [bids |-> <<>>, currency |-> defaultCurrency,
                                     httpCalls |-> st.seatBidMap[primary].httpCalls,
                                     seat |-> bidderName]
                               ELSE st.seatBidMap[s]]
             placed == [bid |-> [b.Bid EXCEPT !.Price =
                                    finalPrice(@, adjustmentFactor(options.bidAdjustments,
                                                       bidderName, primary), c.rate)],
                        bidMeta |-> [AdapterCode |-> primary],
                        originalBidCPM |-> b.Bid.Price,
                        originalBidCur |-> respCur,
                        convertedTo |-> c.currency,
                        claims |-> b.Seat,
                        call |-> n]
         IN placeBids(Tail(bids),
                IF ~v.valid
                THEN dropBid(st, v.err)
                ELSE [st EXCEPT !.seatBidMap =
                         [seats EXCEPT ![bidderName].bids = Append(@, placed)]],
                c, respCur, primary, n)

\* As debugCall, but the account alone decides when there is no header.
debugCallForAccount(st, httpInfo, primary) ==
    IF options.headerDebugAllowed \/ options.accountDebugAllowed
    THEN [st EXCEPT !.seatBidMap[primary].httpCalls = Append(@, makeExt(httpInfo))]
    ELSE st

\* The debug record of a call result, or the warning that there is none.
debugCall(st, httpInfo, primary) ==
    IF options.headerDebugAllowed
    THEN [st EXCEPT !.seatBidMap[primary].httpCalls = Append(@, makeExt(httpInfo))]
    ELSE IF options.accountDebugAllowed
    THEN IF options.debugInfoAllow
         THEN [st EXCEPT !.seatBidMap[primary].httpCalls = Append(@, makeExt(httpInfo))]
         ELSE [st EXCEPT !.errs = Append(@, Warning(BidderLevelDebugDisabledWarningCode,
                                                   "debug turned off for bidder"))]
    ELSE st

dropResponseWithoutError(st, err) == st

\* No rate was found: the bids of the response are not handled.
dropResponse(st, err) == [st EXCEPT !.errs = Append(@, err)]

\* As failedCall, but the bids accepted before are given up.
failedCallDiscardsBids(st, err) ==
    [st EXCEPT !.errs = Append(@, err),
               !.seatBidMap = [x \in DOMAIN @ |-> [@[x] EXCEPT !.bids = <<>>]]]

\* A call result with an error: the error is kept.
failedCall(st, err) == [st EXCEPT !.errs = Append(@, err)]

\* The body of the loop for the call result httpInfo, the n-th taken.
\* st has the seat map, the errors and the currencies of the request.
handleCallResult(st0, httpInfo, req, n) ==
    LET primary == req.BidderName
        st == debugCall(st0, httpInfo, primary)
    IN IF httpInfo.err # NoErr
       THEN failedCall(st, httpInfo.err)
       ELSE LET made == MakeBids(httpInfo.response.Body)
                st1 == [st EXCEPT !.errs = @ \o made.errs]
            IN IF made.bidResponse = NilBidResponse THEN st1
               ELSE LET respCur == IF made.bidResponse.Currency = "" THEN defaultCurrency
                                   ELSE made.bidResponse.Currency
                        curs == IF Len(st1.Cur) = 0 THEN <<defaultCurrency>> ELSE st1.Cur
                        c == conversionRate(options.conversions, respCur, curs,
                                 [rate |-> 0, err |-> NoErr,
                                  currency |-> st1.seatBidMap[primary].currency,
                                  found |-> FALSE])
                        st2 == [st1 EXCEPT !.Cur = curs,
                                           !.seatBidMap[primary].currency = c.currency]
                        bids == IF Cardinality(DOMAIN req.BidderStoredResponses) > 0
                                THEN replaceImpIds(made.bidResponse.Bids, httpInfo.request,
                                                   req.ImpReplaceImpId)
                                ELSE made.bidResponse.Bids
                    IN IF c.err = NoErr
                       THEN placeBids(bids, st2, c, respCur, primary, n)
                       ELSE dropResponse(st2, c.err)

\* ------------------------------------------------------------------------
\* Bidder stages called from several tasks on one executor
\* ------------------------------------------------------------------------
MaxExecutions == 2

BidderStages == {StageBidderRequest, StageRawBidderResponse}

\* The bidder of the x-th task.
BidderOf(x) == <<"bidder-a", "bidder-b", "bidder-c", "bidder-d">>[x]

NoOutcome == [Nil |-> TRUE]

\* The plan a builder answers for a bidder stage with the account of the
\* executor.
PlanForBidderStage(builder, stageName) ==
    CHOOSE p \in PlansFor(builder, stageName, account) : TRUE

\* sync.Mutex of a new executor: nobody holds it.
NoHolder == 0

\* As canLock, but the mutex lets everyone in.
canLockAlways(m) == TRUE

\* sync.Mutex.Lock goes on when nobody holds the mutex.
canLock(m) == m = NoHolder

\* The module contexts of one group as the map the stage hands back: one
\* entry for a module, that of its last hook in the group.
groupModuleContext(pairs) ==
    [m \in {pairs[k][1] : k \in DOMAIN pairs} |->
        pairs[CHOOSE k \in DOMAIN pairs :
                 /\ pairs[k][1] = m
                 /\ \A j \in DOMAIN pairs : pairs[j][1] = m => j <= k][2]]

\* The maps of the groups that still hold an entry.
groupCtx(ctxs) ==
    SelectSeq([g \in DOMAIN ctxs |-> groupModuleContext(ctxs[g])],
              LAMBDA moduleCtxs : DOMAIN moduleCtxs # {})

\* The task x asks the plan builder for the plan of its stage: with no plan
\* the stage operation returns.
PlanForStageOf(x) ==
    /\ x \in DOMAIN executions
    /\ executions[x].at = "called"
    /\ \E p \in {PlanForBidderStage(planBuilder, executions[x].stage)} :
          executions' = [executions EXCEPT
                            ![x].at = IF IsEmptyPlan(p) THEN "returned" ELSE "planned",
                            ![x].plan = p]
    /\ UNCHANGED <<planBuilder, stageOutcomes, moduleContexts, stageVars, bidderVars, mutex,
                   bidRequest, account, ext>>

\* What becomes of the hooks of a group: each hook answers in time, or the
\* timeout of the group elapses first.
HookStatesOf(group) ==
    {hs \in SeqsOf({"done", "timeout"}, 1, MaxHooks) : Len(hs) = Len(group.Hooks)}

\* executeStage before its first group.
NoRun ==
    [Groups |-> <<>>, Payload |-> [Request |-> <<>>, Body |-> <<>>],
     Contexts |-> <<>>, Reject |-> NoReject]

\* A stage operation of the task of a bidder, just called.
Execution(stageName, bidder) ==
    [stage |-> stageName, bidder |-> bidder, at |-> "called", plan |-> <<>>,
     run |-> NoRun, contexts |-> <<>>, outcome |-> NoOutcome, seen |-> <<>>]

\* executeStage, one turn of its loop: the task x starts the hooks of the
\* next group of its plan and waits until each has answered or the timeout
\* of the group is over.  After the last group, or after a reject, the
\* stage hands back the outcome and the module contexts of its groups.
ExecuteGroup(x) ==
    /\ x \in DOMAIN executions
    /\ executions[x].at = "planned"
    /\ \E g \in {Len(executions[x].run.Groups) + 1} :
       \E hs \in HookStatesOf(executions[x].plan[g]) :
       \E res \in {executeGroup(newContext(executions[x].stage).stage,
                       executions[x].stage, executions[x].plan[g], hs,
                       [i \in 1..Len(executions[x].plan[g].Hooks) |-> i],
                       executions[x].run.Payload)} :
       \E run \in {[Groups |-> Append(executions[x].run.Groups,
                                      [InvocationResults |-> res.InvocationResults]),
                     Payload |-> IF res.Reject # NoReject THEN executions[x].run.Payload
                                 ELSE res.Payload,
                     Contexts |-> Append(executions[x].run.Contexts, res.Ctx),
                     Reject |-> res.Reject]} :
          executions' =
              IF g < Len(executions[x].plan) /\ res.Reject = NoReject
              THEN [executions EXCEPT ![x].run = run]
              ELSE [executions EXCEPT
                       ![x].at = "executed",
                       ![x].run = run,
                       ![x].contexts = groupCtx(run.Contexts),
                       ![x].outcome = [Entity |-> executions[x].bidder,
                                       Stage |-> executions[x].stage,
                                       Groups |-> run.Groups]]
    /\ UNCHANGED <<planBuilder, stageOutcomes, moduleContexts, stageVars, bidderVars, mutex,
                   bidRequest, account, ext>>

\* saveModuleContexts, one turn of its inner loop: the task x puts the
\* context of one module of the first group left, in the order the map
\* gives.
SaveModuleContext(x) ==
    /\ x \in DOMAIN executions
    /\ executions[x].at = "executed"
    /\ executions[x].contexts # <<>>
    /\ \E moduleName \in DOMAIN Head(executions[x].contexts) :
       \E rest \in {[m \in DOMAIN Head(executions[x].contexts) \ {moduleName} |->
                        Head(executions[x].contexts)[m]]} :
          /\ moduleContexts' =
                 put(moduleContexts,
                     <<<<moduleName, Head(executions[x].contexts)[moduleName]>>>>)
          /\ executions' =
                 [executions EXCEPT
                     ![x].contexts = IF DOMAIN rest = {} THEN Tail(@)
                                     ELSE <<rest>> \o Tail(@)]
    /\ UNCHANGED <<planBuilder, stageOutcomes, stageVars, bidderVars, mutex, bidRequest,
                   account, ext>>

\* pushStageOutcome, e.Lock(): the task x gets the mutex.
Lock(x) ==
    /\ x \in DOMAIN executions
    /\ executions[x].at = "executed"
    /\ executions[x].contexts = <<>>
    /\ canLock(mutex)
    /\ mutex' = x
    /\ executions' = [executions EXCEPT ![x].at = "locked"]
    /\ UNCHANGED <<planBuilder, stageOutcomes, moduleContexts, stageVars, bidderVars,
                   bidRequest, account, ext>>

\* pushStageOutcome, append(e.stageOutcomes, outcome): the list is read.
ReadOutcomes(x) ==
    /\ x \in DOMAIN executions
    /\ executions[x].at = "locked"
    /\ executions' = [executions EXCEPT ![x].at = "read", ![x].seen = stageOutcomes]
    /\ UNCHANGED <<planBuilder, stageOutcomes, moduleContexts, stageVars, bidderVars,
                   mutex, bidRequest, account, ext>>

\* pushStageOutcome, e.stageOutcomes = ...: the list that was read, with
\* the outcome at its end, is stored.
WriteOutcomes(x) ==
    /\ x \in DOMAIN executions
    /\ executions[x].at = "read"
    /\ stageOutcomes' = pushStageOutcome(executions[x].seen, executions[x].outcome)
    /\ executions' = [executions EXCEPT ![x].at = "appended"]
    /\ UNCHANGED <<planBuilder, moduleContexts, stageVars, bidderVars, mutex, bidRequest,
                   account, ext>>

\* pushStageOutcome, the deferred e.Unlock(); the stage operation returns.
Unlock(x) ==
    /\ x \in DOMAIN executions
    /\ executions[x].at = "appended"
    /\ mutex' = NoHolder
    /\ executions' = [executions EXCEPT ![x].at = "returned"]
    /\ UNCHANGED <<planBuilder, stageOutcomes, moduleContexts, stageVars, bidderVars,
                   bidRequest, account, ext>>

ConcurrentNext ==
    \/ \E x \in DOMAIN executions : PlanForStageOf(x)
    \/ \E x \in DOMAIN executions : ExecuteGroup(x)
    \/ \E x \in DOMAIN executions : SaveModuleContext(x)
    \/ \E x \in DOMAIN executions : Lock(x)
    \/ \E x \in DOMAIN executions : ReadOutcomes(x)
    \/ \E x \in DOMAIN executions : WriteOutcomes(x)
    \/ \E x \in DOMAIN executions : Unlock(x)

\* ------------------------------------------------------------------------
\* requestBid: the steps
\* ------------------------------------------------------------------------
stopsOnRejectNever(reject) == FALSE

\* The reject of the bidder request stage ends requestBid.
stopsOnReject(reject) == reject # NoReject

failedToRequestSilently(adapterErrs) == adapterErrs

\* The errors returned when the adapter made no request.
failedToRequest(adapterErrs) ==
    IF Len(adapterErrs) = 0 THEN <<FailedToRequestBids>> ELSE adapterErrs

\* As makeChannel, but with room for one call result less.
makeChannelOneShort(n) == [cap |-> n - 1, buf |-> <<>>]

\* make(chan *httpCallInfo, dataLen): an empty channel with room for n call
\* results; a send to it blocks while it is full.
makeChannel(n) == [cap |-> n, buf |-> <<>>]

\* adscert.SignHeader
SignHeader == "X-Ads-Cert-Auth"

\* The headers of a request of the adapter as requestBid sends it: a copy
\* of its headers with X-Prebid, with Sec-GPC when the header of the
\* incoming request was "1", and with the signature when the calls are to
\* be signed and the signer gave one.  http.Header.Add puts each under its
\* canonical key: Sec-GPC under Sec-Gpc.
withHeaders(headers) ==
    headers \cup {CanonicalHeaderKey("X-Prebid")}
    \cup (IF options.globalPrivacyControlHeader = "1"
          THEN {CanonicalHeaderKey("Sec-GPC")} ELSE {})
    \cup (IF /\ options.addCallSignHeader
              /\ options.adsCertSigner.err = Nil
              /\ Len(options.adsCertSigner.signatureMessage) > 0
           THEN {CanonicalHeaderKey(SignHeader)} ELSE {})

\* The warnings of the signer: one for each request it could not sign.
signErrors(n) ==
    [k \in 1..n |->
        Warning(UnknownWarningCode,
                "AdsCert signer is enabled but cannot sign the request: "
                    \o options.adsCertSigner.err)]

\* The stage operation that this call of requestBid waits for.
OwnStage ==
    {x \in DOMAIN executions : executions[x].bidder = bidderRequest.BidderName}

\* requestBid is called: it calls the bidder request stage of the executor
\* for its bidder, and waits for it.
requestBid ==
    /\ at = "idle"
    /\ executions' = Append(executions,
                            Execution(StageBidderRequest, bidderRequest.BidderName))
    /\ calls' = [calls EXCEPT !.ExecuteBidderRequestStage = @ + 1]
    /\ at' = "stage"
    /\ UNCHANGED <<planBuilder, stageOutcomes, moduleContexts, stageVars, bidderRequest,
                   adapter, options, tasks, responseChannel, dataLen, reqData, seatBidMap,
                   errs, result, received, mutex, bidRequest, account, ext>>

\* The bidder request stage has returned: its reject ends requestBid.
returnOnReject ==
    /\ at = "stage"
    /\ \E x \in OwnStage :
          /\ executions[x].at = "returned"
          /\ IF stopsOnReject(executions[x].run.Reject)
             THEN /\ result' = [seatBids |-> {}, errs |-> <<executions[x].run.Reject>>]
                  /\ at' = "returned"
             ELSE /\ at' = "stage-done"
                  /\ UNCHANGED result
    /\ UNCHANGED <<planBuilder, stageOutcomes, moduleContexts, stageVars, bidderRequest,
                   adapter, options, tasks, responseChannel, dataLen, reqData, seatBidMap,
                   errs, received, calls, sideVars>>

\* requestBid after the stage: a request with impressions has the adapter
\* make its requests; without any request requestBid returns the errors;
\* else each request gets its headers, and is signed when asked for.
MakeRequests ==
    /\ at = "stage-done"
    /\ IF Len(bidderRequest.BidRequest.Imp) > 0
       THEN \E made \in {adapter.MakeRequests} :
               /\ calls' = [calls EXCEPT !.MakeRequests = @ + 1]
               /\ IF Len(made.reqData) = 0
                  THEN /\ result' = [seatBids |-> {}, errs |-> failedToRequest(made.errs)]
                       /\ at' = "returned"
                       /\ UNCHANGED <<reqData, errs>>
                  ELSE /\ reqData' = [k \in 1..Len(made.reqData) |->
                                         [made.reqData[k] EXCEPT !.Headers = withHeaders(@)]]
                       /\ errs' = made.errs \o
                              (IF options.addCallSignHeader /\ options.adsCertSigner.err # Nil
                               THEN signErrors(Len(made.reqData)) ELSE <<>>)
                       /\ at' = "made"
                       /\ UNCHANGED result
       ELSE /\ at' = "stored"
            /\ UNCHANGED <<reqData, errs, result, calls>>
    /\ UNCHANGED <<planBuilder, stageOutcomes, moduleContexts, stageVars, sideVars,
                   bidderRequest, adapter, options, tasks, responseChannel, dataLen,
                   seatBidMap, received>>

\* The channel is made, with room for the call results of the requests and
\* of the stored responses.  Several requests are each sent by a task of
\* their own; a single one is sent by requestBid itself.
StartRequests ==
    /\ at = "made"
    /\ dataLen' = Len(reqData) + Cardinality(DOMAIN bidderRequest.BidderStoredResponses)
    /\ responseChannel' =
           makeChannel(Len(reqData) + Cardinality(DOMAIN bidderRequest.BidderStoredResponses))
    /\ IF Len(reqData) = 1
       THEN /\ at' = "doRequest"
            /\ UNCHANGED <<tasks, calls>>
       ELSE /\ at' = "stored"
            /\ tasks' = tasks \cup {[kind |-> "doRequest", n |-> k, impId |-> <<>>] :
                                       k \in 1..Len(reqData)}
            /\ calls' = [calls EXCEPT !.doRequest =
                             @ \o [k \in 1..Len(reqData) |-> reqData[k].Uri]]
    /\ UNCHANGED <<planBuilder, stageOutcomes, moduleContexts, stageVars, sideVars,
                   bidderRequest, adapter, options, reqData, seatBidMap, errs, result,
                   received>>

\* The single request is sent by requestBid itself: doRequest is called,
\* the request, which is the one of reqData, gets the header of the
\* compression, and requestBid waits for the server.
doRequestInLine ==
    /\ at = "doRequest"
    /\ reqData' = [reqData EXCEPT ![1] = compressed(@)]
    /\ calls' = [calls EXCEPT !.doRequest = Append(@, reqData[1].Uri)]
    /\ at' = "ctxhttp.Do"
    /\ UNCHANGED <<planBuilder, stageOutcomes, moduleContexts, stageVars, sideVars,
                   bidderRequest, adapter, options, tasks, responseChannel, dataLen,
                   seatBidMap, errs, result, received>>

\* The call of the single request is over: a notification is started for a
\* call that ran out of time, and doRequest returns the call result.
doRequestInLineReturns ==
    /\ at = "ctxhttp.Do"
    /\ \E info \in {doRequestImpl(reqData[1], adapter.answers[1])} :
          /\ tasks' = tasks \cup timeoutNotifications(adapter.Bidder, info, 1)
          /\ calls' = [calls EXCEPT
                 !.notifications =
                     IF timeoutNotifications(adapter.Bidder, info, 1) # {}
                     THEN Append(@, 1) ELSE @]
    /\ at' = "send"
    /\ UNCHANGED <<planBuilder, stageOutcomes, moduleContexts, stageVars, sideVars,
                   bidderRequest, adapter, options, responseChannel, dataLen, reqData,
                   seatBidMap, errs, result, received>>

\* requestBid puts the call result of the single request into the channel.
sendInLine ==
    /\ at = "send"
    /\ responseChannel' =
          [responseChannel EXCEPT
              !.buf = Append(@, doRequestImpl(reqData[1], adapter.answers[1]))]
    /\ at' = "stored"
    /\ UNCHANGED <<planBuilder, stageOutcomes, moduleContexts, stageVars, sideVars,
                   bidderRequest, adapter, options, tasks, dataLen, reqData, seatBidMap,
                   errs, result, received, calls>>

\* The stored responses are each sent by a task of their own, into the
\* channel made for them when no request was made; then the seat of the
\* bidder is made, and requestBid comes to the loop over the channel.
StartStoredResponses ==
    /\ at = "stored"
    /\ LET stored == DOMAIN bidderRequest.BidderStoredResponses
           nilChannel == Len(bidderRequest.BidRequest.Imp) = 0
           primary == bidderRequest.BidderName
       IN /\ IF Cardinality(stored) > 0 /\ nilChannel
             THEN /\ dataLen' = dataLen + Cardinality(stored)
                  /\ responseChannel' = makeChannel(dataLen + Cardinality(stored))
             ELSE UNCHANGED <<dataLen, responseChannel>>
          /\ tasks' = tasks \cup {[kind |-> "stored", n |-> 0, impId |-> i] : i \in stored}
          /\ seatBidMap' =
                 [x \in {primary} |->
                     [bids |-> <<>>, currency |-> defaultCurrency,
                      httpCalls |-> <<>>, seat |-> primary]]
    /\ at' = "drain"
    /\ UNCHANGED <<planBuilder, stageOutcomes, moduleContexts, stageVars, sideVars,
                   bidderRequest, adapter, options, reqData, errs, result, received, calls>>

\* The task of an outbound call calls doRequest: the request, which is the
\* one of reqData, gets the header of the compression, and the task waits
\* for the server.
doRequest(t) ==
    /\ t \in tasks
    /\ t.kind = "doRequest"
    /\ reqData' = [reqData EXCEPT ![t.n] = compressed(@)]
    /\ tasks' = (tasks \ {t}) \cup {[t EXCEPT !.kind = "ctxhttp.Do"]}
    /\ UNCHANGED <<planBuilder, stageOutcomes, moduleContexts, stageVars, sideVars,
                   bidderRequest, adapter, options, at, responseChannel, dataLen,
                   seatBidMap, errs, result, received, calls>>

\* The call of the task is over: a notification is started for a call that
\* ran out of time, and doRequest returns the call result to the task.
doRequestReturns(t) ==
    /\ t \in tasks
    /\ t.kind = "ctxhttp.Do"
    /\ \E info \in {doRequestImpl(reqData[t.n], adapter.answers[t.n])} :
          /\ tasks' = ((tasks \ {t}) \cup {[t EXCEPT !.kind = "send"]})
                           \cup timeoutNotifications(adapter.Bidder, info, t.n)
          /\ calls' = [calls EXCEPT !.notifications =
                           IF timeoutNotifications(adapter.Bidder, info, t.n) # {}
                           THEN Append(@, t.n) ELSE @]
    /\ UNCHANGED <<planBuilder, stageOutcomes, moduleContexts, stageVars, sideVars,
                   bidderRequest, adapter, options, at, responseChannel, dataLen, reqData,
                   seatBidMap, errs, result, received>>

\* The task of an outbound call sends its call result and ends.
send(t) ==
    /\ t \in tasks
    /\ t.kind = "send"
    /\ Len(responseChannel.buf) < responseChannel.cap
    /\ responseChannel' =
          [responseChannel EXCEPT
              !.buf = Append(@, doRequestImpl(reqData[t.n], adapter.answers[t.n]))]
    /\ tasks' = tasks \ {t}
    /\ UNCHANGED <<planBuilder, stageOutcomes, moduleContexts, stageVars, sideVars,
                   bidderRequest, adapter, options, at, dataLen, reqData, seatBidMap,
                   errs, result, received, calls>>

\* The task of a stored response sends its call result.
storedResponse(t) ==
    /\ t \in tasks
    /\ t.kind = "stored"
    /\ Len(responseChannel.buf) < responseChannel.cap
    /\ responseChannel' = [responseChannel EXCEPT !.buf =
           Append(@, prepareStoredResponse(t.impId,
                         bidderRequest.BidderStoredResponses[t.impId]))]
    /\ tasks' = tasks \ {t}
    /\ calls' = [calls EXCEPT !.stored = Append(@, t.impId)]
    /\ UNCHANGED <<planBuilder, stageOutcomes, moduleContexts, stageVars, sideVars, bidderRequest,
                   adapter, options, at, dataLen, reqData, seatBidMap, errs, result,
                   received>>

\* One turn of the loop: a call result is taken from the channel.
Receive ==
    /\ at = "drain"
    /\ Len(received) < dataLen
    /\ responseChannel.buf # <<>>
    /\ \E st \in {handleCallResult(
                      [seatBidMap |-> seatBidMap, errs |-> errs,
                       Cur |-> bidderRequest.BidRequest.Cur],
                      Head(responseChannel.buf), bidderRequest, Len(received) + 1)} :
          /\ seatBidMap' = st.seatBidMap
          /\ errs' = st.errs
          /\ bidderRequest' = [bidderRequest EXCEPT !.BidRequest.Cur = st.Cur]
    /\ received' = Append(received, Head(responseChannel.buf))
    /\ responseChannel' = [responseChannel EXCEPT !.buf = Tail(@)]
    /\ UNCHANGED <<planBuilder, stageOutcomes, moduleContexts, stageVars, sideVars, adapter, options,
                   at, tasks, dataLen, reqData, result, calls>>

\* The loop is over: the seat-bids and the errors are returned.
Return ==
    /\ at = "drain"
    /\ Len(received) = dataLen
    /\ result' = [seatBids |-> {seatBidMap[s] : s \in DOMAIN seatBidMap}, errs |-> errs]
    /\ at' = "returned"
    /\ UNCHANGED <<planBuilder, stageOutcomes, moduleContexts, stageVars, sideVars, bidderRequest,
                   adapter, options, tasks, responseChannel, dataLen, reqData, seatBidMap,
                   errs, received, calls>>

BidderNext ==
    \/ requestBid
    \/ ConcurrentNext
    \/ returnOnReject
    \/ MakeRequests
    \/ StartRequests
    \/ doRequestInLine
    \/ doRequestInLineReturns
    \/ sendInLine
    \/ StartStoredResponses
    \/ \E t \in tasks : doRequest(t)
    \/ \E t \in tasks : doRequestReturns(t)
    \/ \E t \in tasks : send(t)
    \/ \E t \in tasks : storedResponse(t)
    \/ Receive
    \/ Return

\* The task of a timeout notification runs to its end.  A panic in it ends
\* the process, with everything that runs in it.
doTimeoutNotification(t) ==
    /\ t \in tasks
    /\ t.kind = "notify"
    /\ \E out \in {doTimeoutNotificationImpl(unwrap(adapter.Bidder).notifier,
                                              options.timeoutNotification)} :
          /\ calls' = [calls EXCEPT !.RecordTimeoutNotice = @ \o out.notices,
                                    !.logs = @ \o out.logs]
          /\ IF out.panic
             THEN at' = "panic" /\ tasks' = {}
             ELSE at' = at /\ tasks' = tasks \ {t}
    /\ UNCHANGED <<planBuilder, stageOutcomes, moduleContexts, stageVars, sideVars, bidderRequest,
                   adapter, options, responseChannel, dataLen, reqData, seatBidMap, errs,
                   result, received>>

\* requestBid on a bidder that may be told of its timeouts.
NotifyingBidderNext ==
    \/ BidderNext
    \/ \E t \in tasks : doTimeoutNotification(t)

\* ------------------------------------------------------------------------
\* requestBid: what it is called with
\* ------------------------------------------------------------------------
MaxRequests == 2

Uri(k) == <<"https://bidder/1", "https://bidder/2", "https://bidder/3">>[k]

\* The adapters that make lo..MaxRequests requests, whose MakeRequests
\* returns one of the lists of errors and whose server gives the answers.
Adapters(lo, errLists, answers) ==
    UNION {{[MakeRequests |->
                [reqData |-> [k \in 1..n |-> RequestData("POST", Uri(k), <<"{}">>, {})],
                 errs |-> e],
             answers |-> a, Bidder |-> PlainBidder] :
                e \in errLists, a \in [1..n -> answers]} :
           n \in lo..MaxRequests}

NoAdapter ==
    [MakeRequests |-> [reqData |-> <<>>, errs |-> <<>>], answers |-> <<>>,
     Bidder |-> PlainBidder]

Answer(status, body) ==
    [Err |-> Nil, StatusCode |-> status, Body |-> body, ReadErr |-> Nil]

\* The server answers, and the body of its answer cannot be read to its end.
BrokenBody ==
    [Err |-> Nil, StatusCode |-> 200, Body |-> "", ReadErr |-> "unexpected EOF"]

NetworkError ==
    [Err |-> "connection refused", StatusCode |-> 0, Body |-> "", ReadErr |-> Nil]

\* The deadline of the context of the request is over before the answer.
DeadlineExceeded == [Err |-> "deadline", StatusCode |-> 0, Body |-> "", ReadErr |-> Nil]

\* The context of the request is cancelled before the answer.
Canceled ==
    [Err |-> "context canceled", StatusCode |-> 0, Body |-> "", ReadErr |-> Nil]

AdapterError == [Type |-> "BadInput", Message |-> "no imp is supported"]

\* The impression ids with a stored response: a plain one, and one in which
\* the text of ImpIdReqBody occurs.
StoredImpIds == {<<"imp-1">>, <<"imp-2", ImpIdReqBody, "imp-1">>}

Rates ==
    [p \in {<<"USD", "USD">>, <<"EUR", "EUR">>, <<"GBP", "GBP">>, <<"JPY", "JPY">>,
            <<"EUR", "USD">>, <<"USD", "EUR">>} |->
        IF p[1] = p[2] THEN 1 ELSE IF p = <<"EUR", "USD">> THEN 2 ELSE 3]

NoSigner == [signatureMessage |-> "", err |-> Nil]

Options ==
    [conversions |-> Rates, headerDebugAllowed |-> TRUE, accountDebugAllowed |-> FALSE,
     debugInfoAllow |-> TRUE, bidAdjustments |-> <<>>,
     alternateBidderCodes |-> {"alt-seat"},
     timeoutNotification |-> [Log |-> FALSE, FailOnly |-> FALSE],
     endpointCompression |-> "", globalPrivacyControlHeader |-> "",
     addCallSignHeader |-> FALSE, adsCertSigner |-> NoSigner]

\* What adsCertSigner.Sign answers: a signature, an error, or neither.
Signer(signatureMessage, err) == [signatureMessage |-> signatureMessage, err |-> err]

BidderRequest(imp, cur, stored, replace) ==
    [BidderName |-> TheBidder, BidRequest |-> [Imp |-> imp, Cur |-> cur],
     BidderStoredResponses |-> stored, ImpReplaceImpId |-> replace]

\* requestBid has not been called with the request req on the adapter adp.
BidderInit(req, adp, opt) ==
    /\ bidderRequest = req
    /\ adapter = adp
    /\ options = opt
    /\ at = "idle"
    /\ tasks = {}
    /\ responseChannel = [cap |-> 0, buf |-> <<>>]
    /\ dataLen = 0
    /\ reqData = <<>>
    /\ seatBidMap = <<>>
    /\ errs = <<>>
    /\ result = [seatBids |-> {}, errs |-> <<>>]
    /\ received = <<>>
    /\ calls = [ExecuteBidderRequestStage |-> 0, ExecuteRawBidderResponseStage |-> 0,
                MakeRequests |-> 0, doRequest |-> <<>>, stored |-> <<>>,
                notifications |-> <<>>, RecordTimeoutNotice |-> <<>>, logs |-> <<>>]

\* ------------------------------------------------------------------------
\* Initial state
\* ------------------------------------------------------------------------
Bodies == {<<"name", "last_name">>}

NewHookExecutor ==
    [planBuilder |-> MutationsPlanBuilder,
     stageOutcomes |-> <<>>, moduleContexts |-> [m \in Modules |-> NoContext]]

\* The executor after an entrypoint stage that ran one group with one hook.
AfterEntrypoint ==
    LET res == executeGroup(StageEntrypoint, StageEntrypoint,
                            Group(<<HookWrapper("module-1", "ctx", "contextHook1")>>),
                            <<"done">>, <<1>>,
                            [Request |-> <<>>, Body |-> <<"name", "last_name">>])
    IN [planBuilder |-> NewHookExecutor.planBuilder,
        stageOutcomes |-> pushStageOutcome(NewHookExecutor.stageOutcomes,
            [Entity |-> Entity(StageEntrypoint), Stage |-> StageEntrypoint,
             Groups |-> <<[InvocationResults |-> res.InvocationResults]>>]),
        moduleContexts |-> saveModuleContexts(NewHookExecutor.moduleContexts, <<res.Ctx>>)]

\* The account of the request.
TheAccount == [ID |-> "account-1"]

\* A nil *openrtb2.BidRequest.
NilBidRequest == [Nil |-> TRUE]

\* No task runs a stage operation, and nothing is made of the outcomes.
SideInit ==
    /\ mutex = NoHolder
    /\ executions = <<>>
    /\ bidRequest = NilBidRequest
    /\ account = NilAccount
    /\ ext = <<>>

\* The executor e and the variables of a stage operation in steps.
StageInit(e) ==
    /\ planBuilder = e.planBuilder
    /\ stageOutcomes = e.stageOutcomes
    /\ moduleContexts = e.moduleContexts
    /\ pc = "idle"
    /\ stage = Nil
    /\ executionCtx = [account |-> NilAccount, accountId |-> "", endpoint |-> "",
                       stage |-> Nil]
    /\ plan = <<>>
    /\ given = <<>>
    /\ gi = 0
    /\ payload = NoPayload
    /\ hookState = <<>>
    /\ arrived = <<>>
    /\ outcome = <<>>
    /\ contexts = <<>>
    /\ ret = Returned(Nil, NoPayload, NoReject)
    /\ before = <<>>
    /\ beforeContexts = e.moduleContexts
    /\ applied = <<>>
    /\ invoked = <<>>
    /\ late = {}

\* No stage operation runs on the executor e.
ExecutorInit(e) == StageInit(e) /\ SideInit

\* The executor e when the stage operations are called one by one.
InitWith(e) ==
    /\ ExecutorInit(e)
    /\ BidderInit(BidderRequest(<<>>, <<>>, <<>>, <<>>), NoAdapter, Options)

\* An executor, new or after a first stage, made with the builder of the
\* plans of the hooks that change the payload, or with a builder of the tests.
Init ==
    \E e \in {NewHookExecutor, AfterEntrypoint},
       b \in {MutationsPlanBuilder} \cup TestBuilders :
        InitWith([e EXCEPT !.planBuilder = b])

\* ------------------------------------------------------------------------
\* Steps of a stage operation
\* ------------------------------------------------------------------------
LaunchWithStalePayload(g, hooks, p) ==
    /\ gi' = g
    /\ hookState' = [i \in 1..Len(hooks) |-> "running"]
    /\ arrived' = <<>>
    /\ invoked' = invoked \o
           [i \in 1..Len(hooks) |->
               [Group |-> g, Hook |-> i, Payload |-> payload,
                ModuleContext |-> moduleContexts[hooks[i].Module]]]

\* The hooks of group g are started, each with the payload p.
Launch(g, hooks, p) ==
    /\ gi' = g
    /\ hookState' = [i \in 1..Len(hooks) |-> "running"]
    /\ arrived' = <<>>
    /\ invoked' = invoked \o
           [i \in 1..Len(hooks) |->
               [Group |-> g, Hook |-> i, Payload |-> p,
                ModuleContext |-> moduleContexts[hooks[i].Module]]]

\* The tail of the stage operation: the outcome is labelled and pushed, the
\* module contexts are saved, the body and the reject are returned.
StageReturn(stageName, groups, p, ctxs, reject) ==
    /\ stageOutcomes' = pushStageOutcome(stageOutcomes,
            [Entity |-> Entity(stageName), Stage |-> stageName, Groups |-> groups])
    /\ moduleContexts' = saveModuleContexts(moduleContexts, ctxs)
    /\ ret' = Returned(stageName, p, reject)
    /\ pc' = "returned"
    /\ payload' = p
    /\ outcome' = groups
    /\ contexts' = ctxs

\* executeStage with the plan p and the payload p0: the first group is
\* started; a plan without groups is done at once.
executeStage(ctx, p, p0) ==
    /\ executionCtx' = ctx
    /\ IF Len(p) = 0
       THEN /\ StageReturn(stage', <<>>, p0, <<>>, NoReject)
            /\ UNCHANGED <<gi, hookState, arrived, invoked>>
       ELSE /\ pc' = "group"
            /\ payload' = p0
            /\ outcome' = <<>>
            /\ contexts' = <<>>
            /\ Launch(1, p[1].Hooks, p0)
            /\ UNCHANGED <<stageOutcomes, moduleContexts, ret>>

\* A stage operation is called with the body b; the plan builder answers p.
stageOperation(stageName, p, b) ==
    /\ before' = stageOutcomes
    /\ beforeContexts' = moduleContexts
    /\ plan' = p
    /\ given' = b
    /\ UNCHANGED <<planBuilder, bidderVars, sideVars>>
    /\ IF IsEmptyPlan(p)
       THEN /\ ret' = Returned(stageName, [Request |-> <<>>, Body |-> b], NoReject)
            /\ pc' = "returned"
            /\ UNCHANGED <<stageOutcomes, moduleContexts, stage, executionCtx,
                           gi, payload, hookState, arrived, outcome, contexts, applied,
                           invoked, late>>
       ELSE /\ stage' = stageName
            /\ executeStage(newContext(stageName), p, [Request |-> <<>>, Body |-> b])
            /\ UNCHANGED <<applied, late>>

\* SetAccount: the account of the request is set on the executor, before
\* the stage operation is called; a nil account changes nothing.
SetAccount(acc) ==
    /\ pc = "idle"
    /\ account' = IF acc = NilAccount THEN account ELSE acc
    /\ UNCHANGED <<planBuilder, stageOutcomes, moduleContexts, stageVars, bidderVars,
                   mutex, executions, bidRequest, ext>>

ExecuteEntrypointStage ==
    /\ pc = "idle"
    /\ \E p \in PlansFor(planBuilder, StageEntrypoint, NilAccount), b \in Bodies : stageOperation(StageEntrypoint, p, b)

ExecuteRawAuctionStage ==
    /\ pc = "idle"
    /\ \E p \in PlansFor(planBuilder, StageRawAuction, account), b \in Bodies : stageOperation(StageRawAuction, p, b)

ExecuteBidderRequestStage ==
    /\ pc = "idle"
    /\ \E p \in PlansFor(planBuilder, StageBidderRequest, account), b \in Bodies :
          stageOperation(StageBidderRequest, p, b)

ExecuteRawBidderResponseStage ==
    /\ pc = "idle"
    /\ \E p \in PlansFor(planBuilder, StageRawBidderResponse, account), b \in Bodies :
          stageOperation(StageRawBidderResponse, p, b)

\* The group that runs is over; its hooks are in the states hs and answered
\* in the order arr.  The answers are handled; then the stage is rejected,
\* or the next group starts, or the stage is done.
FinishGroup(hs, arr) ==
    \E res \in {executeGroup(executionCtx.stage, stage, plan[gi], hs, arr, payload)} :
    LET groups == Append(outcome, [InvocationResults |-> res.InvocationResults])
        ctxs == Append(contexts, res.Ctx)
    IN  /\ applied' = applied \o
               [k \in 1..Len(res.Done) |->
                   [Group |-> gi, Hook |-> res.Done[k][1],
                    Field |-> res.Done[k][2].Field,
                    Key |-> Join(res.Done[k][2].Key, ".")]]
        /\ late' = late \cup
               {[Group |-> gi, Hook |-> i, Why |-> hs[i], Returned |-> FALSE] :
                   i \in {j \in DOMAIN hs : hs[j] \in {"timeout", "abandoned"}}}
        /\ IF res.Reject # NoReject
           THEN /\ StageReturn(stage, groups, payload, ctxs, res.Reject)
                /\ hookState' = hs
                /\ arrived' = arr
                /\ UNCHANGED <<gi, invoked>>
           ELSE IF gi = Len(plan)
           THEN /\ StageReturn(stage, groups, res.Payload, ctxs, NoReject)
                /\ hookState' = hs
                /\ arrived' = arr
                /\ UNCHANGED <<gi, invoked>>
           ELSE /\ payload' = res.Payload
                /\ outcome' = groups
                /\ contexts' = ctxs
                /\ Launch(gi + 1, plan[gi + 1].Hooks, res.Payload)
                /\ UNCHANGED <<stageOutcomes, moduleContexts, pc, ret>>

\* Hook i of the running group returns.  A reject ends the collecting: the
\* hooks that still run are given up.
HookReturns(i) ==
    /\ pc = "group"
    /\ i \in DOMAIN hookState
    /\ hookState[i] = "running"
    /\ LET w == executeHook(stage, plan[gi].Hooks[i])
           rejects == w.Hook.Result.Reject
           hs == [j \in DOMAIN hookState |->
                    IF j = i THEN "done"
                    ELSE IF rejects /\ hookState[j] = "running" THEN "abandoned"
                    ELSE hookState[j]]
       IN IF \E j \in DOMAIN hs : hs[j] = "running"
          THEN /\ hookState' = hs
               /\ arrived' = Append(arrived, i)
               /\ UNCHANGED <<stageOutcomes, moduleContexts, pc, gi, payload,
                              outcome, contexts, ret, applied, invoked, late>>
          ELSE FinishGroup(hs, Append(arrived, i))
    /\ UNCHANGED <<planBuilder, stage, executionCtx, plan, given, before, beforeContexts>>
    /\ UNCHANGED <<bidderVars, sideVars>>

\* The hooks of the running group that run at the moment, in hook order.
RECURSIVE running(_, _)
running(hs, i) ==
    IF i > Len(hs) THEN <<>>
    ELSE (IF hs[i] = "running" THEN <<i>> ELSE <<>>) \o running(hs, i + 1)

GroupTimeoutAfterAllReturned ==
    /\ pc = "group"
    /\ \A j \in DOMAIN hookState : hookState[j] # "running"
    /\ FinishGroup(hookState, arrived)
    /\ UNCHANGED <<planBuilder, stage, executionCtx, plan, given, before, beforeContexts>>
    /\ UNCHANGED <<bidderVars, sideVars>>

\* The timeout of the running group elapses: the hooks that still run are
\* answered for with a timeout.
GroupTimeout ==
    /\ pc = "group"
    /\ \E j \in DOMAIN hookState : hookState[j] = "running"
    /\ FinishGroup([j \in DOMAIN hookState |->
                       IF hookState[j] = "running" THEN "timeout" ELSE hookState[j]],
                   arrived \o running(hookState, 1))
    /\ UNCHANGED <<planBuilder, stage, executionCtx, plan, given, before, beforeContexts>>
    /\ UNCHANGED <<bidderVars, sideVars>>

\* A hook that was given up returns at last; nobody waits for its answer.
LateReturn(t) ==
    /\ t \in late
    /\ ~t.Returned
    /\ late' = (late \ {t}) \cup {[t EXCEPT !.Returned = TRUE]}
    /\ UNCHANGED <<planBuilder, stageOutcomes, moduleContexts, pc, stage, executionCtx,
                   plan, given, gi, payload, hookState, arrived, outcome, contexts,
                   ret, before, beforeContexts, applied, invoked>>
    /\ UNCHANGED <<bidderVars, sideVars>>

Next ==
    \/ \E acc \in {NilAccount, TheAccount} : SetAccount(acc)
    \/ ExecuteEntrypointStage
    \/ ExecuteRawAuctionStage
    \/ ExecuteBidderRequestStage
    \/ ExecuteRawBidderResponseStage
    \/ \E i \in 1..MaxHooks : HookReturns(i)
    \/ GroupTimeout
    \/ \E t \in late : LateReturn(t)

Spec == Init /\ [][Next]_vars

\* The timer of a group always fires; a hook may never return.
LiveSpec == InitWith(NewHookExecutor) /\ [][Next]_vars /\ WF_vars(GroupTimeout)

\* A new executor whose plans hold the hooks that fail.
FaultInit == InitWith([NewHookExecutor EXCEPT !.planBuilder = FaultsPlanBuilder])

FaultSpec == FaultInit /\ [][Next]_vars

\* An executor, new or after a first stage, whose plans hold the hooks that
\* hand back module contexts.
ContextInit ==
    \E e \in {NewHookExecutor, AfterEntrypoint} :
        InitWith([e EXCEPT !.planBuilder = ContextsPlanBuilder])

ContextSpec == ContextInit /\ [][Next]_vars

\* The calls of requestBid for n other bidders, each at its call of the
\* bidder request stage of the executor they all share.
OtherBidders(n) == [x \in 1..n |-> Execution(StageBidderRequest, BidderOf(x))]

\* requestBid for requests with and without impressions and stored
\* responses, on adapters that make up to MaxRequests requests, with
\* executors whose bidder request stage has no plan or a plan that may
\* reject, alone or while requestBid runs for other bidders.
BidderInit1 ==
    \E b \in {EmptyBuilder, BidderStagesPlanBuilder, ApplyHookMutationsBuilder},
       n \in 0..(MaxExecutions - 1),
       imp \in {<<>>, <<"imp-live">>},
       ids \in SUBSET StoredImpIds,
       flagged \in {{}, {<<"imp-1">>}, {<<"imp-2", ImpIdReqBody, "imp-1">>}, StoredImpIds},
       flag \in BOOLEAN :
    \E adp \in IF imp = <<>> THEN {NoAdapter}
                ELSE Adapters(0, {<<>>, <<AdapterError>>},
                              {NetworkError, Answer(200, "usd")}) :
        /\ flagged = {} => flag
        /\ ~flag => flagged = {<<"imp-1">>}
        /\ n > 0 => /\ b = BidderStagesPlanBuilder
                    /\ ids = {<<"imp-1">>} /\ flagged = {}
                    /\ Len(adp.MakeRequests.reqData) = 2 /\ adp.MakeRequests.errs = <<>>
                    /\ \A k \in DOMAIN adp.answers : adp.answers[k] = Answer(200, "usd")
        /\ StageInit([NewHookExecutor EXCEPT !.planBuilder = b])
        /\ mutex = NoHolder
        /\ executions = OtherBidders(n)
        /\ bidRequest = NilBidRequest
        /\ account = NilAccount
        /\ ext = <<>>
        /\ BidderInit(BidderRequest(imp, <<>>, [i \in ids |-> "usd"],
                                     [i \in flagged |-> flag]),
                       adp, Options)

BidderSpec == BidderInit1 /\ [][BidderNext]_vars

\* requestBid for requests in several currencies, on adapters whose
\* responses are in several currencies.
CurrencyInit ==
    \E pb \in {EmptyBuilder, BidderStagesPlanBuilder},
       cur \in {<<>>, <<"USD">>, <<"EUR", "USD">>, <<"JPY", "EUR">>, <<"GBP", "USD">>},
       ids \in {{}, {<<"imp-1">>}},
       adp \in Adapters(1, {<<>>}, {Answer(200, "usd"), Answer(200, "eur"),
                                    Answer(200, "eur-alt"), Answer(200, "gbp")}) :
        /\ pb = BidderStagesPlanBuilder =>
              /\ cur = <<>> /\ ids = {}
              /\ Len(adp.MakeRequests.reqData) = 1
              /\ adp.answers[1] = Answer(200, "usd")
        /\ ExecutorInit([NewHookExecutor EXCEPT !.planBuilder = pb])
        /\ BidderInit(BidderRequest(<<"imp-live">>, cur, [i \in ids |-> "eur"], <<>>),
                       adp, Options)

CurrencySpec == CurrencyInit /\ [][BidderNext]_vars

\* requestBid for requests with and without a live impression and with
\* up to two stored responses, on adapters that make one request (made in
\* line) or more.
DrainInit ==
    \E pb \in {EmptyBuilder, BidderStagesPlanBuilder},
       imp \in {<<>>, <<"imp-live">>},
       ids \in SUBSET StoredImpIds :
    \E adp \in IF imp = <<>> THEN {NoAdapter}
                ELSE Adapters(1, {<<>>}, {NetworkError, Answer(200, "usd")}) :
        /\ pb = BidderStagesPlanBuilder =>
              /\ imp = <<"imp-live">> /\ ids = {<<"imp-1">>}
              /\ Len(adp.MakeRequests.reqData) = 2
              /\ \A k \in DOMAIN adp.answers : adp.answers[k] = Answer(200, "usd")
        /\ ExecutorInit([NewHookExecutor EXCEPT !.planBuilder = pb])
        /\ BidderInit(BidderRequest(imp, <<>>, [i \in ids |-> "usd"], <<>>), adp, Options)

\* Every dispatched call returns and every task that can run gets its turn.
DrainSpec ==
    /\ DrainInit
    /\ [][BidderNext]_vars
    /\ WF_vars(requestBid)
    /\ WF_vars(ConcurrentNext)
    /\ WF_vars(returnOnReject)
    /\ WF_vars(MakeRequests)
    /\ WF_vars(StartRequests)
    /\ WF_vars(doRequestInLine)
    /\ WF_vars(doRequestInLineReturns)
    /\ WF_vars(sendInLine)
    /\ WF_vars(StartStoredResponses)
    /\ WF_vars(\E t \in tasks : doRequest(t))
    /\ WF_vars(\E t \in tasks : doRequestReturns(t))
    /\ WF_vars(\E t \in tasks : send(t))
    /\ WF_vars(\E t \in tasks : storedResponse(t))
    /\ WF_vars(Receive)
    /\ WF_vars(Return)

\* The adjustments of bidRequestOptions.bidAdjustments: none, of the primary
\* bidder, of the alternate seat, of both.
BidAdjustments ==
    {[x \in d |-> IF x = TheBidder THEN 2 ELSE 3] : d \in SUBSET {TheBidder, "alt-seat"}}

\* requestBid on adapters whose bids claim no seat, an allowed seat or a
\* seat that is not allowed, with and without adjustments.
PriceInit ==
    \E pb \in {EmptyBuilder, BidderStagesPlanBuilder},
       cur \in {<<>>, <<"EUR", "USD">>},
       adj \in BidAdjustments,
       ids \in {{}, {<<"imp-1">>}},
       adp \in Adapters(1, {<<>>}, {Answer(200, "usd"), Answer(200, "eur"),
                                    Answer(200, "eur-alt"), Answer(200, "usd-bad"),
                                    Answer(200, "usd-two")}) :
        /\ pb = BidderStagesPlanBuilder =>
              /\ cur = <<>> /\ DOMAIN adj = {} /\ ids = {}
              /\ Len(adp.MakeRequests.reqData) = 1
              /\ adp.answers[1] = Answer(200, "usd")
        /\ ExecutorInit([NewHookExecutor EXCEPT !.planBuilder = pb])
        /\ BidderInit(BidderRequest(<<"imp-live">>, cur, [i \in ids |-> "usd-two"], <<>>),
                       adp, [Options EXCEPT !.bidAdjustments = adj])

PriceSpec == PriceInit /\ [][BidderNext]_vars

\* config.DebugInfo of the bidder as AdaptBidder is given it: nil, or Allow.
NilDebugInfo == [Nil |-> TRUE]

parseDebugInfo(info) == IF info = NilDebugInfo THEN TRUE ELSE info.Allow

\* The headers an adapter sets on its requests: none, some with the key
\* Authorization, one with the key authorization written to the map as is.
AdapterHeaders == {{}, {"Authorization", "Content-Type"}, {"authorization"}}

\* How the requests are sent: as they are; compressed, for a request that
\* came with Sec-GPC; compressed and signed; signed by a signer that fails;
\* signed by a signer that gives no signature.
Sendings ==
    {Options,
     [Options EXCEPT !.endpointCompression = "gzip", !.globalPrivacyControlHeader = "1"],
     [Options EXCEPT !.endpointCompression = "GZIP", !.addCallSignHeader = TRUE,
                     !.adsCertSigner = Signer("signature", Nil)],
     [Options EXCEPT !.addCallSignHeader = TRUE,
                     !.adsCertSigner = Signer("", "signer is down")],
     [Options EXCEPT !.globalPrivacyControlHeader = "0", !.addCallSignHeader = TRUE,
                     !.adsCertSigner = Signer("", Nil)]}

\* requestBid with every setting of the debug switches, on adapters whose
\* requests have headers and whose server answers with several statuses;
\* a stored response comes with requests that are sent as they are.
DebugInit ==
    \E pb \in {EmptyBuilder, BidderStagesPlanBuilder},
       header \in BOOLEAN, accountAllows \in BOOLEAN, sending \in Sendings,
       info \in {NilDebugInfo, [Allow |-> TRUE], [Allow |-> FALSE]},
       h \in AdapterHeaders,
       ids \in {{}, {<<"imp-1">>}},
       adp \in Adapters(1, {<<>>}, {Answer(200, "usd"), Answer(500, "usd"),
                                    Answer(199, "usd"), NetworkError}) :
        /\ pb = BidderStagesPlanBuilder =>
              /\ header /\ accountAllows /\ sending = Options
              /\ info = NilDebugInfo /\ h = {} /\ ids = {}
              /\ Len(adp.MakeRequests.reqData) = 1
              /\ adp.answers[1] = Answer(200, "usd")
        /\ ids # {} => sending = Options
        /\ ExecutorInit([NewHookExecutor EXCEPT !.planBuilder = pb])
        /\ BidderInit(BidderRequest(<<"imp-live">>, <<>>, [i \in ids |-> "usd"], <<>>),
                       [adp EXCEPT !.MakeRequests.reqData =
                           [k \in DOMAIN @ |-> [@[k] EXCEPT !.Headers = h]]],
                       [sending EXCEPT !.headerDebugAllowed = header,
                                       !.accountDebugAllowed = accountAllows,
                                       !.debugInfoAllow = parseDebugInfo(info)])

DebugSpec == DebugInit /\ [][BidderNext]_vars

\* What a TimeoutBidder and its server do with a notification:
\* MakeTimeoutNotification returns a request, a request that cannot be
\* sent, errors, a request and errors, or nothing at all.
Notifiers ==
    {[toReq |-> RequestData("POST", "https://bidder/timeout", <<"{}">>, {}),
      errL |-> <<>>, answer |-> a] :
        a \in {Answer(200, ""), Answer(500, ""), NetworkError}}
    \cup {[toReq |-> RequestData("NO METHOD", "https://bidder/timeout", <<"{}">>, {}),
           errL |-> <<>>, answer |-> NetworkError],
          [toReq |-> NilRequest, errL |-> <<AdapterError>>, answer |-> NetworkError],
          [toReq |-> RequestData("POST", "https://bidder/timeout", <<"{}">>, {}),
           errL |-> <<AdapterError>>, answer |-> NetworkError],
          [toReq |-> NilRequest, errL |-> <<>>, answer |-> NetworkError]}

Bidders ==
    {PlainBidder, InfoAwareBidder(PlainBidder)}
    \cup {TimeoutBidder(nf) : nf \in Notifiers}
    \cup {InfoAwareBidder(TimeoutBidder(nf)) :
              nf \in {x \in Notifiers :
                         /\ x.errL = <<>>
                         /\ x.toReq = NilRequest \/ x.answer = Answer(200, "")}}

\* requestBid on bidders whose calls fail: the request cannot be made (the
\* method of the first one is no method), the deadline is over, the context
\* is cancelled, the connection is refused, the body of the answer cannot
\* be read, the status is bad, the currency has no rate (of a stored
\* response, which comes with the bidders that send no notification).
FailureInit ==
    \E pb \in {EmptyBuilder, BidderStagesPlanBuilder},
       b \in Bidders,
       debug \in {[Log |-> FALSE, FailOnly |-> FALSE], [Log |-> TRUE, FailOnly |-> FALSE],
                  [Log |-> TRUE, FailOnly |-> TRUE]},
       ids \in {{}, {<<"imp-1">>}},
       method \in {"POST", "NO METHOD"},
       adp \in Adapters(1, {<<>>}, {Answer(200, "usd"), Answer(500, "usd"),
                                    DeadlineExceeded, Canceled, BrokenBody}) :
        /\ method = "NO METHOD" => b = PlainBidder /\ debug.Log
        /\ ids # {} => b \in {PlainBidder, InfoAwareBidder(PlainBidder)}
        /\ pb = BidderStagesPlanBuilder =>
              /\ b = PlainBidder /\ ~debug.Log /\ ids = {} /\ method = "POST"
              /\ Len(adp.MakeRequests.reqData) = 1
              /\ adp.answers[1] = Answer(200, "usd")
        /\ ExecutorInit([NewHookExecutor EXCEPT !.planBuilder = pb])
        /\ BidderInit(BidderRequest(<<"imp-live">>, <<>>, [i \in ids |-> "gbp"], <<>>),
                       [adp EXCEPT !.Bidder = b, !.MakeRequests.reqData[1].Method = method],
                       [Options EXCEPT !.timeoutNotification = debug])

FailureSpec == FailureInit /\ [][NotifyingBidderNext]_vars

\* Up to MaxExecutions tasks have each called a bidder stage for a bidder
\* of their own, on a new executor or on one that ran the entrypoint stage.
ConcurrentInit ==
    \E e \in {NewHookExecutor, AfterEntrypoint},
       b \in {EmptyBuilder, ApplyHookMutationsBuilder, RejectPlanBuilder,
               WithModuleContextsPlanBuilder, BidderStagesPlanBuilder},
       n \in 1..MaxExecutions :
    \E stages \in [1..n -> BidderStages] :
        /\ StageInit([e EXCEPT !.planBuilder = b])
        /\ BidderInit(BidderRequest(<<>>, <<>>, <<>>, <<>>), NoAdapter, Options)
        /\ mutex = NoHolder
        /\ executions = [x \in 1..n |-> Execution(stages[x], BidderOf(x))]
        /\ bidRequest = NilBidRequest
        /\ account = NilAccount
        /\ ext = <<>>

ConcurrentSpec == ConcurrentInit /\ [][ConcurrentNext]_vars

\* ------------------------------------------------------------------------
\* EnrichExtBidResponse: the stage outcomes made into the extension of the
\* response (key prebid.modules)
\* ------------------------------------------------------------------------
traceLevelBasic == "basic"
traceLevelVerbose == "verbose"

\* As isVerbose, but the level basic counts as verbose.
isVerboseOrBasic(t) == t \in {traceLevelBasic, traceLevelVerbose}

isVerbose(t) == t = traceLevelVerbose

isBasicOrHigher(t) == t = traceLevelBasic \/ isVerbose(t)

\* hookanalytics.Analytics{}: no tags.
NoAnalytics == <<>>

\* A nil slice of debug messages.
NilMessagesSlice == <<>>

\* Messages that are nil: a map of module code -> hook code -> texts.
NilMessages == <<>>

NoTrace == [Nil |-> TRUE]

\* A nil *ModulesOutcome, and the nil response made of it.
NilModulesOutcome == [Nil |-> TRUE]

\* jsonparser.GetString(bidRequest.Ext, "prebid", "trace"): the text at the
\* key, or "" when there is none.
GetString(e, key) == IF key \in DOMAIN e THEN e[key] ELSE ""

\* jsonparser.GetBoolean(bidRequest.Ext, "prebid", "debug"): the value at
\* the key, or false when there is none.
GetBoolean(e, key) == IF key \in DOMAIN e THEN e[key] ELSE FALSE

\* As getDebugContext, but the account is not asked.
getDebugContextWithoutAccount(req, acc) ==
    IF req = NilBidRequest THEN [trace |-> "", isDebugEnabled |-> FALSE]
    ELSE [trace |-> GetString(req.Ext, "trace"),
          isDebugEnabled |-> req.Test = 1 \/ GetBoolean(req.Ext, "debug")]

\* The trace level of the request and whether debug is enabled.
getDebugContext(req, acc) ==
    IF req = NilBidRequest THEN [trace |-> "", isDebugEnabled |-> FALSE]
    ELSE [trace |-> GetString(req.Ext, "trace"),
          isDebugEnabled |->
              IF acc = NilAccount THEN FALSE
              ELSE (req.Test = 1 \/ GetBoolean(req.Ext, "debug")) /\ acc.DebugAllow]

\* As fillMessages, but the texts of a hook replace those it had.
fillMessagesLastOnly(messages, values, hookID) ==
    IF Len(values) = 0 THEN messages
    ELSE IF DOMAIN messages = {}
    THEN hookID.ModuleCode :> (hookID.HookCode :> values)
    ELSE IF hookID.ModuleCode \notin DOMAIN messages
    THEN messages @@ (hookID.ModuleCode :> (hookID.HookCode :> values))
    ELSE [messages EXCEPT ![hookID.ModuleCode] =
             IF hookID.HookCode \in DOMAIN @
             THEN [@ EXCEPT ![hookID.HookCode] = values]
             ELSE @ @@ (hookID.HookCode :> values)]

\* The texts of a hook are put under its module code and hook code, after
\* the texts the hook has there.
fillMessages(messages, values, hookID) ==
    IF Len(values) = 0 THEN messages
    ELSE IF DOMAIN messages = {}
    THEN hookID.ModuleCode :> (hookID.HookCode :> values)
    ELSE IF hookID.ModuleCode \notin DOMAIN messages
    THEN messages @@ (hookID.ModuleCode :> (hookID.HookCode :> values))
    ELSE [messages EXCEPT ![hookID.ModuleCode] =
             IF hookID.HookCode \in DOMAIN @
             THEN [@ EXCEPT ![hookID.HookCode] = @ \o values]
             ELSE @ @@ (hookID.HookCode :> values)]

\* The hook outcomes of the groups, in the order of the loops.
RECURSIVE InvocationResultsOf(_)
InvocationResultsOf(groups) ==
    IF groups = <<>> THEN <<>>
    ELSE Head(groups).InvocationResults \o InvocationResultsOf(Tail(groups))

RECURSIVE fillAll(_, _)
fillAll(mo, hookOutcomes) ==
    IF hookOutcomes = <<>> THEN mo
    ELSE fillAll([mo EXCEPT
                     !.Errors = fillMessages(@, Head(hookOutcomes).Errors,
                                             Head(hookOutcomes).HookID),
                     !.Warnings = fillMessages(@, Head(hookOutcomes).Warnings,
                                               Head(hookOutcomes).HookID)],
                 Tail(hookOutcomes))

\* prepareModulesOutcome: below the level verbose the debug messages and
\* the analytics tags of every hook outcome are cleared, in the groups
\* themselves; with debug enabled the errors and warnings are collected.
\* Gives the ModulesOutcome and the groups as they are left.
prepareModulesOutcome(modulesOutcome, groups, trace, isDebugEnabled) ==
    [groups |->
        [g \in 1..Len(groups) |->
            [groups[g] EXCEPT !.InvocationResults =
                [i \in 1..Len(@) |->
                    IF ~isVerbose(trace)
                    THEN [@[i] EXCEPT !.DebugMessages = NilMessagesSlice,
                                      !.AnalyticsTags = NoAnalytics]
                    ELSE @[i]]]],
     modulesOutcome |->
        IF ~isDebugEnabled THEN modulesOutcome
        ELSE fillAll(modulesOutcome, InvocationResultsOf(groups))]

\* As addStageName, but the name goes in front.
addStageNameInFront(stageNames, name) == <<name>> \o stageNames

\* stageNames = append(stageNames, stageOutcome.Stage)
addStageName(stageNames, name) == Append(stageNames, name)

\* The loop of getModulesOutcome over the stage outcomes from the k-th on.
\* acc has the ModulesOutcome, the stages by name, the names of the stages
\* and the stage outcomes as they are left.
RECURSIVE collectStages(_, _, _, _)
collectStages(acc, k, trace, isDebugEnabled) ==
    IF k > Len(acc.stageOutcomes) THEN acc
    ELSE LET stageOutcome == acc.stageOutcomes[k]
         IN IF Len(stageOutcome.Groups) = 0
            THEN collectStages(acc, k + 1, trace, isDebugEnabled)
            ELSE With(prepareModulesOutcome(acc.modulesOutcome, stageOutcome.Groups,
                                            trace, isDebugEnabled),
                      LAMBDA r :
                 With([stageOutcome EXCEPT !.Groups = r.groups], LAMBDA left :
                 With([acc EXCEPT !.modulesOutcome = r.modulesOutcome,
                                  !.stageOutcomes[k] = left], LAMBDA acc1 :
                   IF ~isBasicOrHigher(trace)
                   THEN collectStages(acc1, k + 1, trace, isDebugEnabled)
                   ELSE LET ok == left.Stage \in DOMAIN acc1.stages
                            st == IF ok THEN acc1.stages[left.Stage]
                                  ELSE [Stage |-> left.Stage, ExecutionTimeMillis |-> 0,
                                        Outcomes |-> <<>>]
                            st1 == [st EXCEPT
                                       !.Outcomes = Append(@, left),
                                       !.ExecutionTimeMillis =
                                           IF left.ExecutionTimeMillis > @
                                           THEN left.ExecutionTimeMillis ELSE @]
                        IN collectStages(
                               [acc1 EXCEPT
                                   !.stageNames = IF ok THEN @
                                                  ELSE addStageName(@, left.Stage),
                                   !.stages = IF ok THEN [@ EXCEPT ![left.Stage] = st1]
                                              ELSE @ @@ (left.Stage :> st1)],
                               k + 1, trace, isDebugEnabled))))

RECURSIVE SumOf(_)
SumOf(ns) == IF ns = <<>> THEN 0 ELSE Head(ns) + SumOf(Tail(ns))

\* getModulesOutcome: the ModulesOutcome, or nil when there are no errors,
\* no warnings and no stages; and the stage outcomes as they are left.
getModulesOutcome(outcomes, trace, isDebugEnabled) ==
    With(collectStages([modulesOutcome |-> [Errors |-> NilMessages,
                                            Warnings |-> NilMessages,
                                            Trace |-> NoTrace],
                        stages |-> <<>>, stageNames |-> <<>>,
                        stageOutcomes |-> outcomes],
                       1, trace, isDebugEnabled),
         LAMBDA acc :
            [stageOutcomes |-> acc.stageOutcomes,
             modulesOutcome |->
                IF /\ DOMAIN acc.modulesOutcome.Errors = {}
                   /\ DOMAIN acc.modulesOutcome.Warnings = {}
                   /\ DOMAIN acc.stages = {}
                THEN NilModulesOutcome
                ELSE IF DOMAIN acc.stages # {}
                THEN [acc.modulesOutcome EXCEPT !.Trace =
                         [ExecutionTimeMillis |->
                              SumOf([n \in 1..Len(acc.stageNames) |->
                                        acc.stages[acc.stageNames[n]].ExecutionTimeMillis]),
                          Stages |-> [n \in 1..Len(acc.stageNames) |->
                                         acc.stages[acc.stageNames[n]]]]]
                ELSE acc.modulesOutcome])

\* getModulesResponse: nothing for no stage outcomes.
getModulesResponse(outcomes, req, acc) ==
    IF Len(outcomes) = 0
    THEN [stageOutcomes |-> outcomes, modulesOutcome |-> NilModulesOutcome]
    ELSE With(getDebugContext(req, acc), LAMBDA c :
              getModulesOutcome(outcomes, c.trace, c.isDebugEnabled))

\* A JSON merge patch of two objects of texts by hook code, and of two by
\* module code: a key of the patch replaces the one of the target, a list
\* is replaced as a whole, and the other keys of the target stay.
MergeHooks(target, patch) ==
    [k \in DOMAIN target \cup DOMAIN patch |->
        IF k \in DOMAIN patch THEN patch[k] ELSE target[k]]

MergeMessages(target, patch) ==
    [m \in DOMAIN target \cup DOMAIN patch |->
        IF m \in DOMAIN target /\ m \in DOMAIN patch
        THEN MergeHooks(target[m], patch[m])
        ELSE IF m \in DOMAIN patch THEN patch[m] ELSE target[m]]

\* jsonpatch.MergePatch(ext, response): the keys of ext, with the key
\* prebid.modules of the response merged into the one ext has; errors,
\* warnings and trace that are nil are not in the response.
MergePatch(e, modulesOutcome) ==
    IF "prebid.modules" \in DOMAIN e
    THEN [e EXCEPT !["prebid.modules"] =
             [Errors |-> MergeMessages(@.Errors, modulesOutcome.Errors),
              Warnings |-> MergeMessages(@.Warnings, modulesOutcome.Warnings),
              Trace |-> IF modulesOutcome.Trace = NoTrace THEN @.Trace
                        ELSE modulesOutcome.Trace]]
    ELSE [k \in DOMAIN e \cup {"prebid.modules"} |->
             IF k = "prebid.modules" THEN modulesOutcome ELSE e[k]]

NilExt == <<>>

\* What EnrichExtBidResponse returns for the extension it is given, and the
\* stage outcomes as it leaves them.
EnrichExtBidResponseImpl(e, outcomes, req, acc) ==
    With(getModulesResponse(outcomes, req, acc), LAMBDA r :
        [stageOutcomes |-> r.stageOutcomes,
         ext |-> IF r.modulesOutcome = NilModulesOutcome THEN e
                 ELSE MergePatch(e, r.modulesOutcome)])

\* hookExecutor.GetOutcomes: the list of the executor itself, not a copy.
GetOutcomes == stageOutcomes

MaxEnrichments == 2

\* The extension of the response before anything is added to it.
OtherExt == [k \in {"prebid.other"} |-> "kept"]

\* EnrichExtBidResponse is called with the outcomes of the executor, for
\* the first time with no extension or with one that has another key, then
\* with the extension it returned.
EnrichExtBidResponse ==
    /\ Len(ext) < MaxEnrichments
    /\ \E e \in IF Len(ext) = 0 THEN {NilExt, OtherExt} ELSE {ext[Len(ext)]} :
       \E r \in {EnrichExtBidResponseImpl(e, GetOutcomes, bidRequest, account)} :
          /\ ext' = Append(ext, r.ext)
          /\ stageOutcomes' = r.stageOutcomes
          /\ before' = IF Len(ext) = 0 THEN stageOutcomes ELSE before
    /\ UNCHANGED <<planBuilder, moduleContexts, pc, stage, executionCtx, plan, given, gi,
                   payload, hookState, arrived, outcome, contexts, ret, beforeContexts,
                   applied, invoked, late, bidderVars, mutex, executions, bidRequest,
                   account>>

\* ------------------------------------------------------------------------
\* EnrichExtBidResponse: what it is called with
\* ------------------------------------------------------------------------
MaxOutcomes == 3

HookOutcome(module, code, debugMessages, analyticsTags, errors, warnings) ==
    [HookID |-> [ModuleCode |-> module, HookCode |-> code],
     Status |-> StatusSuccess, Action |-> ActionNone, Message |-> "",
     DebugMessages |-> debugMessages, AnalyticsTags |-> analyticsTags,
     Errors |-> errors, Warnings |-> warnings]

StageOutcome(entity, stageName, millis, groups) ==
    [Entity |-> entity, Stage |-> stageName, ExecutionTimeMillis |-> millis,
     Groups |-> [g \in 1..Len(groups) |-> [InvocationResults |-> groups[g]]]]

\* The stage outcomes of a request: of the entrypoint stage, of the bidder
\* request stage of two bidders (the hook foo of foobar runs for both) and
\* of the raw bidder response stage of the first of them.  Every one has a
\* group: a stage operation records an outcome only for a plan that has
\* groups, with one group outcome for each group it ran.
EnrichedOutcomes ==
    {StageOutcome(entityHttpRequest, StageEntrypoint, 5,
         <<<<HookOutcome("foobar", "foo", <<"debug-1">>, <<"tag-1">>, <<>>,
                         <<"warning-1">>)>>>>),
     StageOutcome("bidder-a", StageBidderRequest, 3,
         <<<<HookOutcome("foobar", "foo", <<>>, <<>>, <<"error-1">>, <<>>),
             HookOutcome("foobar", "bar", <<"debug-2">>, <<"tag-2">>, <<"error-2">>,
                         <<"warning-2">>)>>>>),
     StageOutcome("bidder-b", StageBidderRequest, 7,
         <<<<HookOutcome("module-2", "mut", <<>>, <<>>, <<"error-3">>, <<>>)>>,
           <<HookOutcome("foobar", "foo", <<"debug-3">>, <<>>, <<"error-4">>, <<>>)>>>>),
     StageOutcome("bidder-a", StageRawBidderResponse, 1,
         <<<<HookOutcome("module-1", "ctx", <<>>, <<>>, <<>>, <<>>)>>>>)}

\* The requests: none, or one with the test flag set or not and with an
\* extension that may have the keys trace and debug.
BidRequests ==
    {NilBidRequest}
    \cup {[Test |-> t, Ext |-> e] :
             t \in {0, 1},
             e \in {<<>>}
                   \cup {[k \in {"trace"} |-> l] : l \in {"none", "basic", "verbose"}}
                   \cup {[k \in {"debug"} |-> TRUE]}
                   \cup {[k \in {"trace", "debug"} |-> IF k = "trace" THEN l ELSE d] :
                            l \in {"basic", "verbose"}, d \in BOOLEAN}}

\* The accounts: none, one that allows debug, one that does not.
Accounts ==
    {NilAccount} \cup {[ID |-> TheAccount.ID, DebugAllow |-> d] : d \in BOOLEAN}

\* The request is over: the executor has its stage outcomes, and nothing
\* has been made of them.
EnrichInit ==
    \E outs \in SeqsOf(EnrichedOutcomes, 0, MaxOutcomes),
       req \in BidRequests,
       acc \in Accounts :
        /\ StageInit([NewHookExecutor EXCEPT !.planBuilder = EmptyBuilder,
                                             !.stageOutcomes = outs])
        /\ BidderInit(BidderRequest(<<>>, <<>>, <<>>, <<>>), NoAdapter, Options)
        /\ mutex = NoHolder
        /\ executions = <<>>
        /\ bidRequest = req
        /\ account = acc
        /\ ext = <<>>

EnrichNext == EnrichExtBidResponse

EnrichSpec == EnrichInit /\ [][EnrichNext]_vars

\* ------------------------------------------------------------------------
\* The plan builder
\* ------------------------------------------------------------------------
EndpointAmp == "/openrtb2/amp"

MaxScopeGroups == 2

\* A group of a configured execution plan: a timeout in milliseconds and
\* the references of its hooks.
HookRef(module, code) == [ModuleCode |-> module, HookImplCode |-> code]

CfgGroup(timeout, hookSequence) == [Timeout |-> timeout, HookSequence |-> hookSequence]

\* The hooks that are registered, each with the stage it implements: those
\* of the plans for the entrypoint stage are entrypoint hooks, those of the
\* plans for the raw auction stage are raw auction hooks.
HookRepository(stageName) ==
    IF stageName = StageEntrypoint
    THEN {[Module |-> "foobar", Code |-> "foo", Stage |-> StageEntrypoint],
          [Module |-> "foobar", Code |-> "bar", Stage |-> StageEntrypoint],
          [Module |-> "ortb2blocking", Code |-> "block_request", Stage |-> StageEntrypoint]}
    ELSE {[Module |-> "foobar", Code |-> "foo", Stage |-> StageRawAuction],
          [Module |-> "foobar", Code |-> "bar", Stage |-> StageRawAuction],
          [Module |-> "ortb2blocking", Code |-> "block_request", Stage |-> StageRawAuction],
          [Module |-> "prebid", Code |-> "baz", Stage |-> StageRawAuction]}

\* An execution plan of the configuration: nothing, or groups for a stage
\* of the auction endpoint; with an entry for the entrypoint stage of the
\* amp endpoint where asked.
HookExecutionPlan(stageName, groups, withAmp) ==
    LET auction == IF groups = <<>> THEN <<>>
                   ELSE EndpointAuction :>
                           [Stages |-> (stageName :> [Groups |-> groups])]
        amp == IF ~withAmp THEN <<>>
               ELSE EndpointAmp :>
                       [Stages |-> (StageEntrypoint :>
                           [Groups |-> <<CfgGroup(5, <<HookRef("foobar", "foo")>>)>>])]
    IN [Endpoints |-> auction @@ amp]

\* The groups a configured plan has for the stage of the endpoint.
CfgGroupsOf(cfg, endpoint, stageName) ==
    IF endpoint \in DOMAIN cfg.Endpoints
    THEN IF stageName \in DOMAIN cfg.Endpoints[endpoint].Stages
         THEN cfg.Endpoints[endpoint].Stages[stageName].Groups
         ELSE <<>>
    ELSE <<>>

\* The groups of the plan made of configured groups: a reference to a hook
\* that is not registered for the stage is dropped, and so is a group that
\* keeps no hook.
RECURSIVE getGroups(_, _, _)
getGroups(repo, stageName, cfgGroups) ==
    IF cfgGroups = <<>> THEN <<>>
    ELSE LET cfg == Head(cfgGroups)
             found == SelectSeq(cfg.HookSequence,
                          LAMBDA r : [Module |-> r.ModuleCode, Code |-> r.HookImplCode,
                                      Stage |-> stageName] \in repo)
             hooks == [i \in 1..Len(found) |->
                          [Module |-> found[i].ModuleCode, Code |-> found[i].HookImplCode]]
         IN (IF hooks = <<>> THEN <<>>
             ELSE <<[Timeout |-> cfg.Timeout, Hooks |-> hooks]>>)
            \o getGroups(repo, stageName, Tail(cfgGroups))

\* As getMergedGroups, but the groups of the account come after those of
\* the default account.
getMergedGroupsAfterDefault(hooksCfg, endpoint, stageName, acc) ==
    CfgGroupsOf(hooksCfg.HostExecutionPlan, endpoint, stageName)
    \o CfgGroupsOf(hooksCfg.DefaultAccountExecutionPlan, endpoint, stageName)
    \o (IF acc = NilAccount THEN <<>>
        ELSE CfgGroupsOf(acc.Hooks.ExecutionPlan, endpoint, stageName))

\* The configured groups of the stage of the endpoint: those of the host,
\* then those of the account when it has any, and else those of the default
\* account.
getMergedGroups(hooksCfg, endpoint, stageName, acc) ==
    LET accountGroups == IF acc = NilAccount THEN <<>>
                         ELSE CfgGroupsOf(acc.Hooks.ExecutionPlan, endpoint, stageName)
    IN CfgGroupsOf(hooksCfg.HostExecutionPlan, endpoint, stageName)
       \o (IF Len(accountGroups) > 0 THEN accountGroups
           ELSE CfgGroupsOf(hooksCfg.DefaultAccountExecutionPlan, endpoint, stageName))

\* The plan of the stage of the endpoint for the account.
PlanForStage(builder, endpoint, stageName, acc) ==
    getGroups(builder.repo, stageName,
              getMergedGroups(builder.hooks, endpoint, stageName, acc))

\* A request for an endpoint reaches a stage, and the plan is built.
BuildPlan ==
    /\ pc = "idle"
    /\ \E endpoint \in {EndpointAuction, EndpointAmp},
          stageName \in {StageEntrypoint, StageRawAuction} :
          /\ plan' = PlanForStage(planBuilder, endpoint, stageName,
                                   IF stageName = StageEntrypoint THEN NilAccount
                                   ELSE account)
          /\ executionCtx' = [newContext(stageName) EXCEPT !.endpoint = endpoint]
    /\ pc' = "planned"
    /\ UNCHANGED <<planBuilder, stageOutcomes, moduleContexts, stage, given, gi, payload,
                   hookState, arrived, outcome, contexts, ret, before, beforeContexts,
                   applied, invoked, late, bidderVars, sideVars>>

\* The groups of each scope.
HostGroups ==
    {CfgGroup(5, <<HookRef("foobar", "foo")>>),
     CfgGroup(7, <<HookRef("foobar", "foo"), HookRef("unknown", "x"),
                   HookRef("foobar", "bar")>>),
     CfgGroup(9, <<HookRef("unknown", "x")>>)}

DefaultAccountGroups ==
    {CfgGroup(10, <<HookRef("foobar", "bar"), HookRef("ortb2blocking", "block_request")>>),
     CfgGroup(5, <<HookRef("foobar", "foo")>>),
     CfgGroup(9, <<HookRef("unknown", "x")>>)}

AccountGroups ==
    {CfgGroup(15, <<HookRef("prebid", "baz")>>),
     CfgGroup(5, <<HookRef("foobar", "foo")>>),
     CfgGroup(9, <<HookRef("unknown", "x")>>)}

\* The configuration of the host and of the default account for a stage,
\* with the hooks of that stage registered, and the account of the request
\* (none, or with the raw auction stage one with its own plan, which may
\* be empty); or a host with one group for the entrypoint stage and no
\* hook registered.
PlanInit ==
    \E st \in {StageEntrypoint, StageRawAuction},
       registered \in BOOLEAN,
       host \in SeqsOf(HostGroups, 0, MaxScopeGroups),
       default \in SeqsOf(DefaultAccountGroups, 0, MaxScopeGroups),
       acc \in {NilAccount}
               \cup {[ID |-> TheAccount.ID,
                      Hooks |-> [ExecutionPlan |->
                                    HookExecutionPlan(StageRawAuction, gs, FALSE)]] :
                        gs \in SeqsOf(AccountGroups, 0, MaxScopeGroups)} :
        /\ st = StageEntrypoint => acc = NilAccount
        /\ ~registered => st = StageEntrypoint /\ Len(host) = 1 /\ default = <<>>
        /\ StageInit([NewHookExecutor EXCEPT !.planBuilder =
               [hooks |-> [HostExecutionPlan |-> HookExecutionPlan(st, host, FALSE),
                           DefaultAccountExecutionPlan |->
                               HookExecutionPlan(st, default, TRUE)],
                repo |-> IF registered THEN HookRepository(st) ELSE {}]])
        /\ BidderInit(BidderRequest(<<>>, <<>>, <<>>, <<>>), NoAdapter, Options)
        /\ mutex = NoHolder
        /\ executions = <<>>
        /\ bidRequest = NilBidRequest
        /\ account = acc
        /\ ext = <<>>

PlanNext == BuildPlan

PlanSpec == PlanInit /\ [][PlanNext]_vars


\* ------------------------------------------------------------------------
\* Properties
\* ------------------------------------------------------------------------
\* The wrapper w with what its hook answers at the stage of the operation.
HookOf(w) == executeHook(stage, w)

Rejects(w) == HookOf(w).Hook.Result.Reject

\* The codes of the hooks of a group of a plan.
CodesOf(group) == [i \in DOMAIN group.Hooks |-> group.Hooks[i].Code]

\* The hook of group g that answered as the j-th of the recorded outcomes of
\* the group: the hooks given up on a reject have no outcome.
RECURSIVE recorded(_, _)
recorded(hs, i) ==
    IF i > Len(hs) THEN <<>>
    ELSE (IF hs[i] # "abandoned" THEN <<i>> ELSE <<>>) \o recorded(hs, i + 1)

HookAt(g, j) == IF pc = "returned" /\ g = gi THEN recorded(hookState, 1)[j] ELSE j

\* The mutations of a ChangeSet that do not fail, in the order of the ChangeSet.
Working(changeSet) == SelectSeq(changeSet, LAMBDA m : m.Err = "")

\* The part of the history of applied mutations that hook i of group g made.
AppliedBy(g, i) == SelectSeq(applied, LAMBDA a : a.Group = g /\ a.Hook = i)

\* C1: a stage operation whose plan is empty returns the body it was given,
\* returns no reject and appends no StageOutcome, for each of the four stages.
EmptyPlanChangesNothing ==
    (pc = "returned" /\ plan = <<>>) =>
        /\ ret.Stage \in StageNames
        /\ ret.Reject = NoReject
        /\ ret.HasBody => ret.Body = given
        /\ stageOutcomes = before

EmptyPlanWitness ==
    /\ pc = "returned" /\ plan = <<>>
    /\ stageOutcomes # <<>>
    /\ ret.HasBody /\ ret.Body = <<"name", "last_name">>

\* C2: the mutations of the hooks of a group are applied one after another
\* in the order of the hooks of the group, whatever the order in which the
\* hooks answered.
AppliedInHookOrder ==
    \A a, b \in 1..Len(applied) :
        a < b => /\ applied[a].Group <= applied[b].Group
                 /\ applied[a].Group = applied[b].Group
                        => applied[a].Hook <= applied[b].Hook

AnsweredOutOfOrderWitness ==
    /\ pc = "returned"
    /\ arrived = <<2, 1>>
    /\ AppliedBy(gi, 1) # <<>>
    /\ AppliedBy(gi, 2) # <<>>

\* C3: the mutations of a ChangeSet are applied in the order of the
\* ChangeSet, and the outcome of the hook gets one debug message for each
\* mutation that was applied, in the same order, with its key and its type.
ChangeSetAppliedAndLoggedInOrder ==
    /\ \A g \in 1..Len(outcome) : \A j \in 1..Len(outcome[g].InvocationResults) :
          LET o == outcome[g].InvocationResults[j]
              ok == Working(HookOf(plan[g].Hooks[HookAt(g, j)]).Hook.Result.ChangeSet)
              by == AppliedBy(g, HookAt(g, j))
          IN o.Action = ActionUpdate =>
                /\ Len(o.DebugMessages) = Len(ok)
                /\ \A k \in 1..Len(ok) :
                      o.DebugMessages[k] =
                          "Hook mutation successfully applied, affected key: "
                              \o Join(ok[k].Key, ".") \o ", mutation type: " \o ok[k].Type
                /\ Len(by) = Len(ok)
                /\ \A k \in 1..Len(ok) : by[k].Key = Join(ok[k].Key, ".")
                /\ plan[g].Hooks[HookAt(g, j)].Hook \in {"updateBodyHook", "mockUpdateBodyHook"}
                      => o.DebugMessages =
                      <<"Hook mutation successfully applied, affected key: body.foo, mutation type: update",
                        "Hook mutation successfully applied, affected key: body.name, mutation type: delete">>
    /\ (pc = "returned" /\ plan # <<>> /\ ret.Reject = NoReject) =>
          payload.Body = given \o
              [k \in 1..Len(SelectSeq(applied, LAMBDA a : a.Field = "Body")) |->
                  SelectSeq(applied, LAMBDA a : a.Field = "Body")[k].Key]

ChangeSetWitness ==
    /\ pc = "returned"
    /\ ret.Reject = NoReject
    /\ \E g \in 1..Len(outcome) : \E j \in 1..Len(outcome[g].InvocationResults) :
          /\ outcome[g].InvocationResults[j].HookID.HookImplCode = "baz"
          /\ Len(outcome[g].InvocationResults[j].DebugMessages) = 2
    /\ payload.Body = <<"name", "last_name", "body.foo", "body.name">>

\* C4: when a hook of a group returns a reject, no hook of a later group is
\* invoked and the stage operation returns a reject; when no hook rejects,
\* every group of the plan is run and no reject is returned.
HasReject(g) ==
    \E j \in 1..Len(outcome[g].InvocationResults) :
        outcome[g].InvocationResults[j].Action = ActionReject

RejectSkipsLaterGroups ==
    /\ pc = "group" =>
          /\ \A i \in DOMAIN hookState : hookState[i] = "done" => ~Rejects(plan[gi].Hooks[i])
          /\ \A g \in 1..Len(outcome) : ~HasReject(g)
    /\ (pc = "returned" /\ plan # <<>>) =>
          IF \E i \in DOMAIN hookState : hookState[i] = "done" /\ Rejects(plan[gi].Hooks[i])
          THEN /\ ret.Reject # NoReject
               /\ HasReject(gi)
               /\ \A k \in 1..Len(invoked) : invoked[k].Group <= gi
               /\ Len(outcome) = gi
          ELSE /\ ret.Reject = NoReject
               /\ Len(outcome) = Len(plan)
               /\ \A g \in 1..Len(plan) : \A i \in 1..Len(plan[g].Hooks) :
                     \E k \in 1..Len(invoked) : invoked[k].Group = g /\ invoked[k].Hook = i

RejectSkipsWitness ==
    /\ pc = "returned"
    /\ ret.Reject # NoReject
    /\ gi = 1
    /\ Len(plan) = 2

\* C5: a stage that ends in a reject still appends exactly one StageOutcome;
\* it has a group outcome for each group up to the rejecting one and none
\* for the groups skipped, and the outcome of the rejecting hook has the
\* action reject and the error that names the reason.
RejectedStageIsRecorded ==
    (pc = "returned" /\ ret.Reject # NoReject) =>
        /\ Len(stageOutcomes) = Len(before) + 1
        /\ SubSeq(stageOutcomes, 1, Len(before)) = before
        /\ LET last == stageOutcomes[Len(stageOutcomes)]
           IN /\ last.Stage = ret.Stage
              /\ Len(last.Groups) = gi
              /\ gi <= Len(plan)
              /\ \A g \in 1..(gi - 1) :
                    Len(last.Groups[g].InvocationResults) = Len(plan[g].Hooks)
              /\ \E i \in DOMAIN hookState :
                    /\ hookState[i] = "done"
                    /\ Rejects(plan[gi].Hooks[i])
                    /\ \E j \in 1..Len(last.Groups[gi].InvocationResults) :
                          LET o == last.Groups[gi].InvocationResults[j]
                          IN /\ HookAt(gi, j) = i
                             /\ o.HookID = HookID(HookOf(plan[gi].Hooks[i]))
                             /\ o.Action = ActionReject
                             /\ o.Errors = <<"Module rejected stage, reason: \"\"">>

RejectedStageWitness ==
    /\ pc = "returned"
    /\ ret.Reject # NoReject
    /\ before # <<>>
    /\ gi = 2
    /\ Len(outcome[1].InvocationResults) = 1

\* C6: when ExecuteEntrypointStage returns a reject, the body it returns is
\* the body it was called with.
EntrypointRejectReturnsGivenBody ==
    (pc = "returned" /\ stage = StageEntrypoint /\ ret.Reject # NoReject) =>
        ret.Body = given

\* C7: the reject that a stage operation returns names the stage in which
\* the rejecting hook ran and has the reason the hook gave.
RejectNamesStageAndReason ==
    (pc = "returned" /\ ret.Reject # NoReject) =>
        /\ ret.Reject.Stage = stage
        /\ ret.Reject.Stage = ret.Stage
        /\ \E i \in DOMAIN hookState :
              /\ hookState[i] = "done"
              /\ Rejects(plan[gi].Hooks[i])
              /\ ret.Reject.Reason = HookOf(plan[gi].Hooks[i]).Hook.Result.Message

\* C8: a hook that still runs when the timeout of its group elapses is
\* recorded with the status timeout and the error "Hook execution timeout";
\* none of its mutations is applied, also after it has returned; the
\* mutations of the hooks of the group that answered in time are applied,
\* and the groups after it run.
TimedOut(g, i) == \E t \in late : t.Group = g /\ t.Hook = i /\ t.Why = "timeout"

TimedOutHookIsDiscarded ==
    \A t \in late : t.Why = "timeout" =>
        /\ t.Group <= Len(outcome)
        /\ Len(outcome[t.Group].InvocationResults) = Len(plan[t.Group].Hooks)
        /\ LET o == outcome[t.Group].InvocationResults[t.Hook]
           IN /\ o.HookID = HookID(HookOf(plan[t.Group].Hooks[t.Hook]))
              /\ o.Status = StatusTimeout
              /\ o.Errors = <<"Hook execution timeout">>
              /\ o.DebugMessages = <<>>
        /\ AppliedBy(t.Group, t.Hook) = <<>>
        /\ \A i \in 1..Len(plan[t.Group].Hooks) :
              LET h == HookOf(plan[t.Group].Hooks[i]).Hook
              IN (~TimedOut(t.Group, i) /\ h.Err = Nil) =>
                    Len(AppliedBy(t.Group, i)) = Len(Working(h.Result.ChangeSet))
        /\ t.Group < Len(plan) =>
              /\ gi > t.Group
              /\ \A i \in 1..Len(plan[t.Group + 1].Hooks) :
                    \E k \in 1..Len(invoked) :
                        invoked[k].Group = t.Group + 1 /\ invoked[k].Hook = i

TimedOutHookWitness ==
    /\ pc = "returned"
    /\ gi = 2
    /\ AppliedBy(1, 1) # <<>>
    /\ AppliedBy(2, 1) # <<>>
    /\ \E t \in late :
          /\ t.Group = 1 /\ t.Hook = 2 /\ t.Why = "timeout" /\ t.Returned
          /\ plan[1].Hooks[2].Code = "baz"

\* C9: every group comes to an end, when all its hooks have answered or when
\* its timeout elapses, so that the stage operation returns also when a hook
\* never returns.
EveryGroupTerminates ==
    /\ [](pc = "group" => \E j \in DOMAIN hookState : hookState[j] = "running")
    /\ (pc = "group") ~> (pc = "returned")

HookNeverReturnedWitness ==
    /\ pc = "returned"
    /\ gi = Len(plan)
    /\ \E t \in late : t.Why = "timeout" /\ ~t.Returned

\* C10: the groups run one after another, and the hooks of a group are
\* invoked with the payload that has the mutations of the hooks of the
\* groups before it that were accepted, and no mutation of a hook that
\* timed out or failed.
RECURSIVE ApplyAll(_, _)
ApplyAll(ms, p) == IF ms = <<>> THEN p ELSE ApplyAll(Tail(ms), Apply(Head(ms), p))

Accepted(g, i) ==
    LET h == HookOf(plan[g].Hooks[i]).Hook
    IN ~TimedOut(g, i) /\ h.Err = Nil /\ ~h.Result.Reject

\* The payload after the hooks 1..i of group g and all the groups before g.
RECURSIVE AfterHooks(_, _)
AfterHooks(g, i) ==
    IF i = 0
    THEN IF g = 1 THEN [Request |-> <<>>, Body |-> given]
         ELSE AfterHooks(g - 1, Len(plan[g - 1].Hooks))
    ELSE IF Accepted(g, i)
         THEN ApplyAll(Working(HookOf(plan[g].Hooks[i]).Hook.Result.ChangeSet),
                       AfterHooks(g, i - 1))
         ELSE AfterHooks(g, i - 1)

LaterGroupsSeeAcceptedMutations ==
    /\ \A k \in 1..Len(invoked) :
          /\ invoked[k].Payload = AfterHooks(invoked[k].Group, 0)
          /\ Len(outcome) >= invoked[k].Group - 1
    /\ \A a, b \in 1..Len(invoked) : a < b => invoked[a].Group <= invoked[b].Group
    /\ \A k \in 1..Len(applied) :
          /\ ~TimedOut(applied[k].Group, applied[k].Hook)
          /\ HookOf(plan[applied[k].Group].Hooks[applied[k].Hook]).Hook.Err = Nil

LaterGroupWitness ==
    /\ Len(invoked) = 3
    /\ invoked[3].Group = 2
    /\ invoked[3].Payload = [Request |-> <<"header.foo">>, Body |-> given]
    /\ CodesOf(plan[1]) = <<"foo", "baz">>
    /\ TimedOut(1, 2)

\* The hooks of group g that ran and neither timed out nor were given up.
Answered(g, i) == \A t \in late : ~(t.Group = g /\ t.Hook = i)

\* The hooks of group g+1 were started.
Started(g) ==
    \A i \in 1..Len(plan[g].Hooks) :
        \E k \in 1..Len(invoked) : invoked[k].Group = g /\ invoked[k].Hook = i

\* C11: a hook that answers with a failure is recorded with the status
\* execution-failure, a hook that answers with another error with the status
\* execution-error; none of its mutations is applied and it causes no
\* reject; the other hooks of its group have their mutations applied and
\* the groups after it are run.
FailedHookIsRecorded ==
    /\ \A g \in 1..Len(outcome) : \A j \in 1..Len(outcome[g].InvocationResults) :
          LET o == outcome[g].InvocationResults[j]
              i == HookAt(g, j)
              w == HookOf(plan[g].Hooks[i])
          IN (w.Hook.Err # Nil /\ Answered(g, i)) =>
                /\ o.HookID = HookID(w)
                /\ o.Status = IF w.Hook.Err = "failure" THEN "execution-failure"
                                                        ELSE "execution-error"
                /\ o.Action \notin {ActionReject, ActionUpdate}
                /\ o.DebugMessages = <<>>
                /\ AppliedBy(g, i) = <<>>
                /\ \A k \in 1..Len(plan[g].Hooks) :
                      (Answered(g, k) /\ Accepted(g, k)) =>
                          Len(AppliedBy(g, k)) =
                              Len(Working(HookOf(plan[g].Hooks[k]).Hook.Result.ChangeSet))
                /\ (g < Len(plan) /\ ~HasReject(g)) => (gi > g /\ Started(g + 1))
    /\ (pc = "returned" /\ ret.Reject # NoReject) =>
          \E i \in DOMAIN hookState : hookState[i] = "done" /\ Rejects(plan[gi].Hooks[i])
    /\ (pc = "returned" /\ plan # <<>> /\ ret.Reject = NoReject) =>
          Len(outcome) = Len(plan)

FailedHookWitness ==
    /\ pc = "returned"
    /\ ret.Reject = NoReject
    /\ Len(plan) = 2
    /\ CodesOf(plan[1]) = <<"fail", "baz">>
    /\ CodesOf(plan[2]) = <<"err">>
    /\ late = {}
    /\ outcome[1].InvocationResults[1].Status = StatusExecutionFailure
    /\ outcome[2].InvocationResults[1].Status = StatusExecutionError
    /\ payload.Body = <<"name", "last_name", "body.foo", "body.name">>

\* C12: a mutation that fails leaves the payload as it was, is recorded as
\* a warning of the hook and not as a debug message, and the mutations after
\* it in the ChangeSet and the ChangeSets of the other hooks of the group
\* are applied.
FailedMutationIsWarning ==
    /\ \A g \in 1..Len(outcome) : \A j \in 1..Len(outcome[g].InvocationResults) :
          LET o == outcome[g].InvocationResults[j]
              i == HookAt(g, j)
              w == HookOf(plan[g].Hooks[i])
              cs == w.Hook.Result.ChangeSet
              bad == SelectSeq(cs, LAMBDA m : m.Err # "")
          IN (bad # <<>> /\ Answered(g, i) /\ w.Hook.Err = Nil) =>
                /\ o.Status = StatusSuccess
                /\ o.Errors = <<>>
                /\ o.Warnings = [k \in 1..Len(bad) |->
                                    "failed to apply hook mutation: " \o bad[k].Err]
                /\ o.DebugMessages = [k \in 1..Len(Working(cs)) |->
                                         MutationAppliedMsg(Working(cs)[k])]
                /\ \A k \in 1..Len(bad) : \A a \in 1..Len(AppliedBy(g, i)) :
                      AppliedBy(g, i)[a].Key # Join(bad[k].Key, ".")
                /\ [a \in 1..Len(AppliedBy(g, i)) |-> AppliedBy(g, i)[a].Key] =
                      [k \in 1..Len(Working(cs)) |-> Join(Working(cs)[k].Key, ".")]
                /\ \A k \in 1..Len(plan[g].Hooks) :
                      (Answered(g, k) /\ Accepted(g, k)) =>
                          Len(AppliedBy(g, k)) =
                              Len(Working(HookOf(plan[g].Hooks[k]).Hook.Result.ChangeSet))
    /\ \A k \in 1..Len(invoked) : invoked[k].Payload = AfterHooks(invoked[k].Group, 0)
    /\ (pc = "returned" /\ plan # <<>> /\ ret.Reject = NoReject) =>
          payload = AfterHooks(Len(plan), Len(plan[Len(plan)].Hooks))

FailedMutationWitness ==
    /\ pc = "returned"
    /\ ret.Reject = NoReject
    /\ Len(plan) = 1
    /\ CodesOf(plan[1]) = <<"mut", "baz">>
    /\ late = {}
    /\ outcome[1].InvocationResults[1].Warnings =
           <<"failed to apply hook mutation: key not found">>
    /\ payload = [Request |-> <<>>,
                  Body |-> <<"name", "last_name", "body.bar", "body.foo", "body.name">>]

\* The answers of the hooks of the groups from group g on, in the order of
\* the groups and of the hooks: whose module the hook is, whether the hook
\* completed, and the module context it handed back (none when it
\* did not answer in time).
RECURSIVE answers(_, _)
answers(groups, g) ==
    IF g > Len(groups) THEN <<>>
    ELSE [j \in 1..Len(groups[g].InvocationResults) |->
             LET o == groups[g].InvocationResults[j]
             IN [Module |-> o.HookID.ModuleCode,
                 Completed |-> o.Status = StatusSuccess,
                 Context |-> IF o.Status = StatusTimeout THEN NoContext
                             ELSE HookOf(plan[g].Hooks[HookAt(g, j)]).Hook.Result.ModuleContext]]
         \o answers(groups, g + 1)

\* The answers of the hooks of the stage that completed and handed back a
\* module context.
CompletedWithContext ==
    SelectSeq(answers(outcome, 1), LAMBDA a : a.Completed /\ a.Context # NoContext)

\* C13: after a stage operation the module context that a completed hook of
\* a module handed back, in whichever group that was run, is the context
\* stored for the module; the context stored for a module stays, and is
\* given to the hooks of the module in the later stages, until a completed
\* hook of the module hands back another; so storing the context of one
\* module does not change the context of another.
CompletedContextIsStored ==
    /\ (pc = "returned" /\ plan # <<>>) =>
          /\ \A k \in 1..Len(CompletedWithContext) :
                moduleContexts[CompletedWithContext[k].Module]
                    = CompletedWithContext[k].Context
          /\ \A m \in Modules :
                (\A k \in 1..Len(CompletedWithContext) : CompletedWithContext[k].Module # m)
                    => moduleContexts[m] = beforeContexts[m]
    /\ pc = "group" => moduleContexts = beforeContexts
    /\ \A k \in 1..Len(invoked) :
          invoked[k].ModuleContext =
              beforeContexts[HookOf(plan[invoked[k].Group].Hooks[invoked[k].Hook]).Module]

\* ------------------------------------------------------------------------
\* Properties of requestBid
\* ------------------------------------------------------------------------
\* The bidder request stage of this call of requestBid rejected.
BidderStageRejected ==
    \E k \in 1..Len(stageOutcomes) :
        /\ stageOutcomes[k].Stage = StageBidderRequest
        /\ stageOutcomes[k].Entity = bidderRequest.BidderName
        /\ \E g \in 1..Len(stageOutcomes[k].Groups) :
              \E j \in 1..Len(stageOutcomes[k].Groups[g].InvocationResults) :
                  stageOutcomes[k].Groups[g].InvocationResults[j].Action = ActionReject

\* The bids in the seat map, each with its seat.
PlacedBids ==
    UNION {{[seat |-> x, bid |-> seatBidMap[x].bids[k]] :
               k \in 1..Len(seatBidMap[x].bids)} : x \in DOMAIN seatBidMap}

\* The call results taken so far that are synthetic calls of the stored
\* response of the impression i.
SyntheticOf(i) ==
    {k \in 1..Len(received) :
        /\ received[k].request.Uri = ""
        /\ received[k].request.Body = <<"Stored bid response for impression id: ">> \o i}

\* C14: when the bidder request stage rejects, requestBid stops: the
\* adapter is not asked for requests, no call and no stored response is
\* started, and the result has no seat-bid and the reject as its only error.
RejectStopsRequestBid ==
    (at = "returned" /\ BidderStageRejected) =>
        /\ calls.MakeRequests = 0
        /\ calls.doRequest = <<>>
        /\ calls.stored = <<>>
        /\ tasks = {}
        /\ received = <<>>
        /\ result.seatBids = {}
        /\ result.errs = <<RejectError(mockRejectHook.Result)>>
        /\ Cardinality({k \in 1..Len(stageOutcomes) :
                           stageOutcomes[k].Entity = bidderRequest.BidderName}) = 1

RejectStopsRequestBidWitness ==
    /\ at = "returned"
    /\ BidderStageRejected
    /\ Len(bidderRequest.BidRequest.Imp) > 0
    /\ Len(adapter.MakeRequests.reqData) = 2
    /\ DOMAIN bidderRequest.BidderStoredResponses # {}
    /\ Len(result.errs) = 1
    /\ Len(stageOutcomes) = 2
    /\ stageOutcomes[1].Entity = BidderOf(1)
    /\ stageOutcomes[1].Groups[1].InvocationResults[1].Status = StatusTimeout
    /\ Len(stageOutcomes[1].Groups) = 2
    /\ stageOutcomes[1].Groups[2].InvocationResults[1].Action # ActionReject

\* C15: for every call result without error, requestBid runs the raw bidder
\* response stage once, before the bids of the response are put into a seat.
RawBidderResponseStageRunsOnce ==
    calls.ExecuteRawBidderResponseStage =
        Cardinality({k \in 1..Len(received) : received[k].err = NoErr})

\* C16: when the adapter makes no request and gives no error, requestBid
\* returns no seat-bid and the one error FailedToRequestBids; when it makes
\* no request and gives errors, no seat-bid and exactly these errors; no
\* call is made in either case.
NoRequestsReturnsErrors ==
    (/\ at = "returned"
     /\ ~BidderStageRejected
     /\ Len(bidderRequest.BidRequest.Imp) > 0
     /\ Len(adapter.MakeRequests.reqData) = 0) =>
        /\ calls.MakeRequests = 1
        /\ result.seatBids = {}
        /\ IF Len(adapter.MakeRequests.errs) = 0
           THEN /\ Len(result.errs) = 1
                /\ result.errs[1].Type = "FailedToRequestBids"
           ELSE result.errs = adapter.MakeRequests.errs
        /\ calls.doRequest = <<>>
        /\ received = <<>>

NoRequestsWitness ==
    /\ at = "returned"
    /\ ~BidderStageRejected
    /\ Len(bidderRequest.BidRequest.Imp) > 0
    /\ adapter.MakeRequests = [reqData |-> <<>>, errs |-> <<>>]
    /\ result.errs = <<FailedToRequestBids>>

\* C17, as claimed: whenever requestBid is not rejected, it takes exactly
\* one synthetic call result for each impression with a stored response.
StoredResponsesAreProcessed ==
    (at = "returned" /\ ~BidderStageRejected) =>
        \A i \in DOMAIN bidderRequest.BidderStoredResponses :
            Cardinality(SyntheticOf(i)) = 1

\* C17: when requestBid is not rejected and does not return because the
\* adapter made no request, it takes exactly one synthetic call result for
\* each impression with a stored response, also when there are live
\* impressions; the result has the method POST, no URI, the body
\* "Stored bid response for impression id: " and the impression id, the
\* status 200, the stored bytes as response body and no error.
StoredResponsesAreProcessedUnlessNoRequest ==
    /\ (/\ at = "returned"
        /\ ~BidderStageRejected
        /\ ~(Len(bidderRequest.BidRequest.Imp) > 0
                /\ Len(adapter.MakeRequests.reqData) = 0)) =>
          /\ \A i \in DOMAIN bidderRequest.BidderStoredResponses :
                Cardinality(SyntheticOf(i)) = 1
          /\ Len(received) = Len(adapter.MakeRequests.reqData)
                                 * (IF Len(bidderRequest.BidRequest.Imp) > 0 THEN 1 ELSE 0)
                               + Cardinality(DOMAIN bidderRequest.BidderStoredResponses)
    /\ \A k \in 1..Len(received) :
          received[k].request.Uri = "" =>
              \E i \in DOMAIN bidderRequest.BidderStoredResponses :
                  /\ k \in SyntheticOf(i)
                  /\ received[k].request.Method = "POST"
                  /\ received[k].response.StatusCode = 200
                  /\ received[k].response.Body = bidderRequest.BidderStoredResponses[i]
                  /\ received[k].err = NoErr

StoredResponsesWitness ==
    /\ at = "returned"
    /\ Len(bidderRequest.BidRequest.Imp) > 0
    /\ Len(adapter.MakeRequests.reqData) = 1
    /\ Cardinality(DOMAIN bidderRequest.BidderStoredResponses) = 2
    /\ Len(received) = 3
    /\ received[1].request.Uri # ""

\* C18: a bid of the synthetic call of the stored impression i has the
\* ImpID i when ImpReplaceImpId[i] is true, i being the impression id that
\* is recovered from the body of the call; a bid of a live call keeps the
\* ImpID the adapter gave it.
StoredBidGetsItsImpId ==
    \A p \in PlacedBids :
        LET info == received[p.bid.call]
        IN IF info.request.Uri = ""
           THEN \A i \in DOMAIN bidderRequest.BidderStoredResponses :
                    (p.bid.call \in SyntheticOf(i)) =>
                        /\ Split(info.request.Body, ImpIdReqBody)[2] = i
                        /\ Lookup(bidderRequest.ImpReplaceImpId, i, FALSE) =>
                               p.bid.bid.ImpID = i
           ELSE \E k \in 1..Len(MakeBids(info.response.Body).bidResponse.Bids) :
                    p.bid.bid.ImpID =
                        MakeBids(info.response.Body).bidResponse.Bids[k].Bid.ImpID

\* The currencies of the request as the loop uses them.
RequestCur ==
    IF bidderRequest.BidRequest.Cur = <<>> THEN <<"USD">> ELSE bidderRequest.BidRequest.Cur

HasRate(from, to) == <<from, to>> \in DOMAIN options.conversions

\* The first currency of the request with a rate from the currency c.
FirstWithRate(c) ==
    RequestCur[CHOOSE i \in 1..Len(RequestCur) :
                   /\ HasRate(c, RequestCur[i])
                   /\ \A j \in 1..(i - 1) : ~HasRate(c, RequestCur[j])]

\* The bids of a response in the currency c are converted with the rate of
\* the first currency of the request that has one.
FirstRateConverts ==
    \A p \in PlacedBids :
        /\ \E i \in 1..Len(RequestCur) : HasRate(p.bid.originalBidCur, RequestCur[i])
        /\ p.bid.convertedTo = FirstWithRate(p.bid.originalBidCur)
        /\ p.bid.bid.Price =
              p.bid.originalBidCPM
                  * options.conversions[<<p.bid.originalBidCur, p.bid.convertedTo>>]

\* C19: the bids of a response in the currency c are converted with the
\* rate of the first currency of the request that has one, and that
\* currency is the currency of the seat-bid that holds them.
FirstRateIsSeatCurrency ==
    /\ FirstRateConverts
    /\ \A p \in PlacedBids :
          seatBidMap[p.seat].currency = FirstWithRate(p.bid.originalBidCur)

\* The responses taken so far: the number of the call result and the
\* BidderResponse that the adapter made of it.
Responses ==
    {k \in 1..Len(received) :
        /\ received[k].err = NoErr
        /\ MakeBids(received[k].response.Body).bidResponse # NilBidResponse}

ResponseCur(k) ==
    LET c == MakeBids(received[k].response.Body).bidResponse.Currency
    IN IF c = "" THEN "USD" ELSE c

Convertible(k) == \E i \in 1..Len(RequestCur) : HasRate(ResponseCur(k), RequestCur[i])

\* C20: when there is no rate from the currency of a response to any
\* currency of the request, no bid of the response is in a seat-bid and the
\* error of the conversion is among the errors; the bids of the other
\* responses of the bidder stay in the result.
NoRateDropsResponse ==
    /\ \A k \in Responses :
          IF Convertible(k)
          THEN Cardinality({p \in PlacedBids : p.bid.call = k}) =
                   Len(MakeBids(received[k].response.Body).bidResponse.Bids)
          ELSE {p \in PlacedBids : p.bid.call = k} = {}
    /\ Len(SelectSeq(errs, LAMBDA e : e.Type = "ConversionNotFound")) =
          Cardinality({k \in Responses : ~Convertible(k)})
    /\ \A k \in Responses : ~Convertible(k) =>
          \E n \in 1..Len(errs) :
              errs[n] = [Type |-> "ConversionNotFound",
                         Message |-> <<ResponseCur(k), RequestCur[Len(RequestCur)]>>]
    /\ (at = "returned" /\ ~BidderStageRejected) =>
          /\ result.errs = errs
          /\ result.seatBids = {seatBidMap[x] : x \in DOMAIN seatBidMap}

NoRateWitness ==
    /\ at = "returned"
    /\ Len(received) = 2
    /\ received[1].response.Body = "eur"
    /\ received[2].response.Body = "gbp"
    /\ \E x \in result.seatBids : Len(x.bids) = 1 /\ x.bids[1].call = 1
    /\ Len(result.errs) = 1

\* ------------------------------------------------------------------------
\* Properties of the bids and the seat-bids of requestBid
\* ------------------------------------------------------------------------
\* The bids that requestBid returned, each with the seat of its seat-bid.
ReturnedBids ==
    UNION {{[seat |-> x.seat, bid |-> x.bids[k]] : k \in 1..Len(x.bids)} :
              x \in result.seatBids}

\* requestBid returned after the loop over the channel.
ReturnedFromLoop == at = "returned" /\ DOMAIN seatBidMap # {}

\* The bids that the adapter made of the call result k.
AdapterBids(k) ==
    LET bids == MakeBids(received[k].response.Body).bidResponse.Bids
    IN {bids[j] : j \in 1..Len(bids)}

\* The bid of the adapter that the returned bid p was made of.
RawBid(p) == CHOOSE b \in AdapterBids(p.bid.call) : b.Bid.ImpID = p.bid.bid.ImpID

\* The rate from the currency of the call result k to the first currency of
\* the request that has one.
RateOf(k) == options.conversions[<<ResponseCur(k), FirstWithRate(ResponseCur(k))>>]

\* The adjustment configured for the seat x, else for the primary bidder.
AdjustmentOf(x) ==
    Lookup(options.bidAdjustments, x,
           Lookup(options.bidAdjustments, bidderRequest.BidderName, 1))

\* C21: every returned bid has the price of the adapter times the
\* adjustment factor times the conversion rate; its originalBidCPM is the
\* price of the adapter and its originalBidCur the currency of the response.
PriceIsAdjustedAndConverted ==
    \A p \in ReturnedBids :
        /\ p.bid.bid.Price = RawBid(p).Bid.Price * AdjustmentOf(p.seat) * RateOf(p.bid.call)
        /\ p.bid.originalBidCPM = RawBid(p).Bid.Price
        /\ p.bid.originalBidCur = ResponseCur(p.bid.call)

PriceWitness ==
    /\ at = "returned"
    /\ \E p \in ReturnedBids :
          /\ p.seat = "alt-seat"
          /\ p.bid.originalBidCPM = 4
          /\ p.bid.originalBidCur = "USD"
          /\ p.bid.bid.Price = 36

\* C22: the adjustment factor of a bid is the adjustment of the seat the
\* bid claims when there is one, else the adjustment of the primary bidder
\* when there is one, else 1.
AdjustmentPrefersClaimedSeat ==
    \A p \in PlacedBids :
        LET claimed == IF p.bid.claims # "" THEN p.bid.claims ELSE bidderRequest.BidderName
            base == p.bid.originalBidCPM * RateOf(p.bid.call)
        IN IF claimed \in DOMAIN options.bidAdjustments
           THEN p.bid.bid.Price = base * options.bidAdjustments[claimed]
           ELSE IF bidderRequest.BidderName \in DOMAIN options.bidAdjustments
           THEN p.bid.bid.Price = base * options.bidAdjustments[bidderRequest.BidderName]
           ELSE p.bid.bid.Price = base

AdjustmentWitness ==
    /\ DOMAIN options.bidAdjustments = {"the-bidder", "alt-seat"}
    /\ \E p \in PlacedBids : p.bid.claims = "alt-seat" /\ p.bid.bid.Price = 3 * p.bid.originalBidCPM
    /\ \E p \in PlacedBids : p.bid.claims = "" /\ p.bid.bid.Price = 2 * p.bid.originalBidCPM

\* The bids of the adapter in the call results taken so far, of responses
\* with a rate: the number of the call result and the bid.
ConvertibleBids ==
    UNION {{[call |-> k, b |-> b] : b \in AdapterBids(k)} :
              k \in {n \in Responses : Convertible(n)}}

ValidSeat(b) ==
    IsValidBidderCode(options.alternateBidderCodes, bidderRequest.BidderName,
                      IF b.Seat # "" THEN b.Seat ELSE bidderRequest.BidderName).valid

\* C23: a bid that claims a seat that is not valid for the primary bidder
\* is in no seat-bid and there is a warning AlternateBidderCode for it; a
\* bid that claims a valid seat is in the seat-bid of that seat; a bid that
\* claims no seat is in the seat-bid of the primary bidder.
InvalidSeatIsDropped ==
    /\ \A x \in ConvertibleBids :
          LET of == {p \in PlacedBids :
                        p.bid.call = x.call /\ p.bid.bid.ImpID = x.b.Bid.ImpID}
          IN IF ValidSeat(x.b)
             THEN /\ Cardinality(of) = 1
                  /\ \A p \in of :
                        p.seat = IF x.b.Seat = "" THEN bidderRequest.BidderName
                                 ELSE x.b.Seat
             ELSE of = {}
    /\ Len(SelectSeq(errs, LAMBDA e : e.Type = "Warning"
                                       /\ e.WarningCode = "AlternateBidderCodeWarningCode")) =
          Cardinality({x \in ConvertibleBids : ~ValidSeat(x.b)})
    /\ (at = "returned" /\ ~BidderStageRejected) =>
          result.errs = errs /\ ReturnedBids = PlacedBids

InvalidSeatWitness ==
    /\ at = "returned"
    /\ Len(received) = 2
    /\ received[1].response.Body = "usd-bad"
    /\ received[2].response.Body = "usd-two"
    /\ Len(result.errs) = 1
    /\ Cardinality(ReturnedBids) = 2

\* The seats of the bids accepted from the call results.
AcceptedSeats ==
    {IF x.b.Seat = "" THEN bidderRequest.BidderName ELSE x.b.Seat :
        x \in {y \in ConvertibleBids : ValidSeat(y.b)}}

\* C24: when requestBid returns after the loop, there is one seat-bid for
\* the primary bidder, also without bids, and one for each other seat with
\* an accepted bid, and no other; no two seat-bids have the same seat;
\* every accepted bid is in the seat-bid of the seat it claims.
OneSeatBidPerSeat ==
    ReturnedFromLoop =>
        /\ {x.seat : x \in result.seatBids} = {bidderRequest.BidderName} \cup AcceptedSeats
        /\ \A x, y \in result.seatBids : x.seat = y.seat => x = y
        /\ \A p \in ReturnedBids :
              p.seat = IF p.bid.claims = "" THEN bidderRequest.BidderName ELSE p.bid.claims
        /\ Cardinality(ReturnedBids) =
              Cardinality({x \in ConvertibleBids : ValidSeat(x.b)})

OneSeatBidPerSeatWitness ==
    /\ ReturnedFromLoop
    /\ Cardinality(result.seatBids) = 2
    /\ \E x \in result.seatBids : x.seat = bidderRequest.BidderName /\ x.bids = <<>>
    /\ \E x \in result.seatBids : x.seat = "alt-seat" /\ Len(x.bids) = 2

\* ------------------------------------------------------------------------
\* Properties of the debug trace of requestBid
\* ------------------------------------------------------------------------
\* The http-call records of the seat-bids that requestBid returned.
ReturnedHttpCalls ==
    UNION {{x.httpCalls[k] : k \in 1..Len(x.httpCalls)} : x \in result.seatBids}

\* C25: no http-call record that requestBid returns has an Authorization
\* header among its request headers, whatever headers the adapter set.
NoAuthorizationInTrace ==
    \A x \in ReturnedHttpCalls :
        \A h \in x.RequestHeaders : CanonicalHeaderKey(h) # "Authorization"

\* The same for the headers whose key in the map is in canonical form.
NoCanonicalAuthorizationInTrace ==
    \A x \in ReturnedHttpCalls : "Authorization" \notin x.RequestHeaders

\* The http-call records and the debug warnings of the bidder so far.
DebugTrace ==
    IF bidderRequest.BidderName \in DOMAIN seatBidMap
    THEN seatBidMap[bidderRequest.BidderName].httpCalls ELSE <<>>

DebugWarnings ==
    SelectSeq(errs, LAMBDA e : e.Type = "Warning"
                               /\ e.WarningCode = "BidderLevelDebugDisabledWarningCode")

\* C26: a call result gets an http-call record exactly when the header
\* allows debug, or the account and the adapter allow it; when the account
\* allows it, the adapter does not and the header does not, it gets a
\* warning BidderLevelDebugDisabled and no record; when neither the header
\* nor the account allows debug, it gets neither.
DebugIsGated ==
    LET record == options.headerDebugAllowed
                  \/ (options.accountDebugAllowed /\ options.debugInfoAllow)
        warning == /\ ~options.headerDebugAllowed
                   /\ options.accountDebugAllowed
                   /\ ~options.debugInfoAllow
    IN /\ Len(DebugTrace) = IF record THEN Len(received) ELSE 0
       /\ record => \A k \in 1..Len(received) :
                        /\ DebugTrace[k].Uri = received[k].request.Uri
                        /\ DebugTrace[k].RequestBody = received[k].request.Body
       /\ Len(DebugWarnings) = IF warning THEN Len(received) ELSE 0
       /\ ReturnedFromLoop =>
             /\ \E x \in result.seatBids :
                   x.seat = bidderRequest.BidderName /\ x.httpCalls = DebugTrace
             /\ result.errs = errs

DebugRecordWitness ==
    /\ ReturnedFromLoop
    /\ ~options.headerDebugAllowed
    /\ options.accountDebugAllowed
    /\ options.debugInfoAllow
    /\ Len(received) = 2
    /\ Len(DebugTrace) = 2

\* The call results with a status below 200 or from 400 on.
BadStatus ==
    {k \in 1..Len(received) :
        /\ received[k].response # NoResponse
        /\ (received[k].response.StatusCode < 200 \/ received[k].response.StatusCode >= 400)}

\* A call answered with a bad status has the error BadServerResponse and
\* none of its bids is parsed.
BadStatusIsAnError ==
    \A k \in BadStatus :
        /\ received[k].err.Type = "BadServerResponse"
        /\ \E n \in 1..Len(errs) : errs[n] = received[k].err
        /\ {p \in PlacedBids : p.bid.call = k} = {}

\* C27: a call answered with a status below 200 or from 400 on has the
\* error BadServerResponse, none of its bids is parsed, and its http-call
\* record carries the body of the response.
BadStatusBodyIsInTrace ==
    /\ BadStatusIsAnError
    /\ options.headerDebugAllowed =>
          \A k \in BadStatus : DebugTrace[k].ResponseBody = received[k].response.Body

\* ------------------------------------------------------------------------
\* Properties of the calls that fail
\* ------------------------------------------------------------------------
\* The outbound calls that have ended: the numbers of their requests.
EndedCalls ==
    IF at \in {"drain", "returned"}
    THEN {n \in 1..Len(calls.doRequest) :
             ~\E t \in tasks : t.kind \in {"doRequest", "ctxhttp.Do", "send"} /\ t.n = n}
    ELSE {}

\* The call results in the channel and those taken from it.
CallResults ==
    {responseChannel.buf[k] : k \in 1..Len(responseChannel.buf)}
    \cup {received[k] : k \in 1..Len(received)}

\* The call result of the n-th request.
CallResultOf(n) == CHOOSE info \in CallResults : info.request.Uri = calls.doRequest[n]

\* The bidder, or the bidder inside the info-aware bidder, can be told of
\* a timeout.
CanBeNotified ==
    \/ adapter.Bidder.kind = "TimeoutBidder"
    \/ /\ adapter.Bidder.kind = "InfoAwareBidder"
       /\ adapter.Bidder.Bidder[1].kind = "TimeoutBidder"

\* The request of the n-th call could be made, and was sent.
Sent(n) == adapter.MakeRequests.reqData[n].Method \in {"GET", "POST"}

\* C28: a call that fails because the deadline of the context is over has
\* the error Timeout, and a notification is started for it exactly when
\* the bidder, taken out of an info-aware bidder, is a TimeoutBidder; a
\* call that fails otherwise (its request cannot be made, the call fails,
\* the body of the answer cannot be read) has its own error and starts no
\* notification.
TimeoutIsTypedAndNotified ==
    /\ \A n \in EndedCalls :
          LET a == adapter.answers[n]
              notified == \E j \in 1..Len(calls.notifications) : calls.notifications[j] = n
          IN /\ \E info \in CallResults : info.request.Uri = calls.doRequest[n]
             /\ (Sent(n) /\ a.Err = "deadline") =>
                   /\ CallResultOf(n).err = [Type |-> "Timeout",
                                             Message |-> "context deadline exceeded"]
                   /\ notified <=> CanBeNotified
             /\ (Sent(n) /\ a.Err # Nil /\ a.Err # "deadline") =>
                   /\ CallResultOf(n).err = [Type |-> "error", Message |-> a.Err]
                   /\ ~notified
             /\ (Sent(n) /\ a.Err = Nil /\ a.ReadErr # Nil) =>
                   /\ CallResultOf(n).err = [Type |-> "error", Message |-> a.ReadErr]
                   /\ CallResultOf(n).response = NoResponse
                   /\ ~notified
             /\ ~Sent(n) =>
                   /\ CallResultOf(n).err.Type = "error"
                   /\ CallResultOf(n).err.Message = "net/http: invalid method"
                   /\ CallResultOf(n).response = NoResponse
                   /\ ~notified
             /\ a.Err = Nil => ~notified
    /\ at \in {"drain", "returned"} =>
          \A i, j \in 1..Len(calls.notifications) :
              calls.notifications[i] = calls.notifications[j] => i = j

TimeoutIsNotifiedWitness ==
    /\ at = "returned"
    /\ adapter.Bidder.kind = "InfoAwareBidder"
    /\ Len(received) = 2
    /\ received[1].err.Type = "Timeout"
    /\ received[2].err = [Type |-> "error", Message |-> "context canceled"]
    /\ calls.notifications = <<1>>
    /\ calls.RecordTimeoutNotice = <<TRUE>>

\* C29: the notification is detached: the call result of a call that ran
\* out of time is the request and the error Timeout whatever becomes of
\* the notification, every error of requestBid is the error of a call
\* result or of a conversion, and what requestBid returned stays as it is
\* while notifications run.
NotificationIsDetached ==
    /\ \A n \in EndedCalls :
          (Sent(n) /\ adapter.answers[n].Err = "deadline") =>
              CallResultOf(n) =
                  httpCallInfo(compressed([adapter.MakeRequests.reqData[n] EXCEPT
                                               !.Headers = withHeaders(@)]),
                               NoResponse, Timeout)
    /\ \A n \in 1..Len(errs) :
          \/ \E k \in 1..Len(received) : received[k].err # NoErr /\ errs[n] = received[k].err
          \/ errs[n].Type = "ConversionNotFound"
    /\ (at = "returned" /\ ~BidderStageRejected) =>
          /\ result.errs = errs
          /\ result.seatBids = {seatBidMap[x] : x \in DOMAIN seatBidMap}
          /\ Len(received) = dataLen

NotificationIsDetachedWitness ==
    /\ at = "returned"
    /\ Len(result.errs) = 2
    /\ \A n \in 1..2 : result.errs[n].Type = "Timeout"
    /\ calls.RecordTimeoutNotice = <<FALSE>>
    /\ \E t \in tasks : t.kind = "notify"

\* The errors of the call results from the k-th on, in the order taken:
\* the error of the call, or the error of the conversion of its response.
RECURSIVE ErrorsFrom(_)
ErrorsFrom(k) ==
    IF k > Len(received) THEN <<>>
    ELSE (IF received[k].err # NoErr THEN <<received[k].err>>
          ELSE IF k \in Responses /\ ~Convertible(k)
          THEN <<[Type |-> "ConversionNotFound",
                  Message |-> <<ResponseCur(k), RequestCur[Len(RequestCur)]>>]>>
          ELSE <<>>)
         \o ErrorsFrom(k + 1)

\* C30: a call that fails (no connection, out of time, bad status, no rate)
\* takes nothing from the other calls: requestBid returns every bid
\* accepted from the calls that succeeded and one error for each call that
\* failed.
FailedCallKeepsOtherBids ==
    /\ at \in {"drain", "returned"} =>
          /\ errs = ErrorsFrom(1)
          /\ \A x \in ConvertibleBids :
                ValidSeat(x.b) => \E p \in PlacedBids : p.bid.call = x.call
          /\ Cardinality(PlacedBids) = Cardinality({x \in ConvertibleBids : ValidSeat(x.b)})
    /\ (at = "returned" /\ ~BidderStageRejected) =>
          result.errs = errs /\ ReturnedBids = PlacedBids

FailedCallWitness ==
    /\ at = "returned"
    /\ Len(received) = 3
    /\ received[1].err.Type = "Timeout"
    /\ received[2].request.Uri = ""
    /\ received[2].response.Body = "gbp"
    /\ received[3].response.Body = "usd"
    /\ received[3].err = NoErr
    /\ Len(result.errs) = 2
    /\ Cardinality(ReturnedBids) = 1

\* ------------------------------------------------------------------------
\* Properties of the impression id of a stored response
\* ------------------------------------------------------------------------
\* The bids placed from the synthetic call of the stored impression i whose
\* id is recovered from the body of the call as it is.
StoredBidsOf(i) ==
    {p \in PlacedBids :
        /\ p.bid.call \in SyntheticOf(i)
        /\ Split(received[p.bid.call].request.Body, ImpIdReqBody)[2] = i}

\* C36, as claimed: a bid of the stored response of the impression i has
\* the ImpID i when ImpReplaceImpId[i] is true and also when
\* ImpReplaceImpId has no entry for i.
UnspecifiedFlagReplacesImpId ==
    \A i \in DOMAIN bidderRequest.BidderStoredResponses :
        (i \notin DOMAIN bidderRequest.ImpReplaceImpId \/ bidderRequest.ImpReplaceImpId[i]) =>
            \A p \in StoredBidsOf(i) : p.bid.bid.ImpID = i

\* What holds instead: the bid has the ImpID i exactly when ImpReplaceImpId
\* has an entry for i that is true; without an entry it keeps the ImpID of
\* the stored response, as with an entry that is false.
OnlyTrueFlagReplacesImpId ==
    \A i \in DOMAIN bidderRequest.BidderStoredResponses :
        \A p \in StoredBidsOf(i) :
            IF i \in DOMAIN bidderRequest.ImpReplaceImpId /\ bidderRequest.ImpReplaceImpId[i]
            THEN p.bid.bid.ImpID = i
            ELSE \E k \in 1..Len(MakeBids(bidderRequest.BidderStoredResponses[i]).bidResponse.Bids) :
                     p.bid.bid.ImpID =
                         MakeBids(bidderRequest.BidderStoredResponses[i]).bidResponse.Bids[k].Bid.ImpID

\* ------------------------------------------------------------------------
\* Properties of the currency of the returned seat-bids
\* ------------------------------------------------------------------------
\* C38, as claimed: in every seat-bid that requestBid returned, the
\* currency whose rate converted a bid is the currency of the seat-bid,
\* also in the seat-bid of an alternate seat and when the calls of the
\* bidder were answered in several currencies.
BidsAreInSeatCurrency ==
    \A x \in result.seatBids :
        \A k \in 1..Len(x.bids) : x.bids[k].convertedTo = x.currency

\* What holds instead: the seat-bid of the bidder itself has the currency
\* that converted the response taken last among those with a rate, and
\* the seat-bid of an alternate seat has the default currency.
SeatCurrencyIsOfLastResponse ==
    ReturnedFromLoop =>
        \A x \in result.seatBids :
            IF x.seat = bidderRequest.BidderName
            THEN \A k \in Responses :
                     (Convertible(k) /\ \A j \in Responses : j > k => ~Convertible(j)) =>
                         x.currency = FirstWithRate(ResponseCur(k))
            ELSE x.currency = defaultCurrency

\* ------------------------------------------------------------------------
\* Properties of the timeout notification
\* ------------------------------------------------------------------------
\* C39, as claimed: doTimeoutNotification ends without a run-time fault
\* whatever MakeTimeoutNotification returns and whatever the logging
\* configuration is.
NotificationNeverPanics == at # "panic"

\* What holds instead: doTimeoutNotification ends in a run-time fault only
\* when MakeTimeoutNotification returns no request and no error and
\* TimeoutNotification.Log is set; with any other result, and with
\* logging off, it ends.
NotificationPanicsOnlyOnNothing ==
    at = "panic" =>
        /\ CanBeNotified
        /\ unwrap(adapter.Bidder).notifier.toReq = NilRequest
        /\ unwrap(adapter.Bidder).notifier.errL = <<>>
        /\ options.timeoutNotification.Log

\* ------------------------------------------------------------------------
\* Properties of the response channel
\* ------------------------------------------------------------------------
\* The tasks that have a call result to send to the channel.
Senders == {t \in tasks : t.kind \in {"doRequest", "ctxhttp.Do", "send", "stored"}}

\* The call results that requestBid is to take: one for each request of
\* the adapter and one for each impression with a stored response.
Expected ==
    (IF Len(bidderRequest.BidRequest.Imp) > 0 THEN Len(adapter.MakeRequests.reqData) ELSE 0)
        + Cardinality(DOMAIN bidderRequest.BidderStoredResponses)

\* Every call result is sent once and fits into the channel: the loop takes
\* as many results as are sent, the channel has room for all of them, no
\* task waits for room, and what is left when requestBid returns is nothing.
ChannelHoldsEveryResult ==
    /\ at = "drain" \/ ReturnedFromLoop =>
          /\ dataLen = Expected
          /\ responseChannel.cap >= dataLen
          /\ Len(responseChannel.buf) <= responseChannel.cap
          /\ Cardinality(Senders) + Len(responseChannel.buf) + Len(received) = dataLen
          /\ Senders # {} => Len(responseChannel.buf) < responseChannel.cap
          /\ \A k \in 1..Len(calls.doRequest) :
                Cardinality({t \in Senders : t.kind # "stored" /\ t.n = k})
                  + Cardinality({j \in 1..Len(responseChannel.buf) :
                                    responseChannel.buf[j].request.Uri = calls.doRequest[k]})
                  + Cardinality({j \in 1..Len(received) :
                                    received[j].request.Uri = calls.doRequest[k]}) = 1
          /\ \A i \in DOMAIN bidderRequest.BidderStoredResponses :
                Cardinality({t \in Senders : t.kind = "stored" /\ t.impId = i})
                  + Cardinality({j \in 1..Len(responseChannel.buf) :
                                    responseChannel.buf[j] =
                                        prepareStoredResponse(i,
                                            bidderRequest.BidderStoredResponses[i])})
                  + Cardinality(SyntheticOf(i)) = 1
    /\ ReturnedFromLoop =>
          /\ Senders = {}
          /\ responseChannel.buf = <<>>
          /\ Len(received) = dataLen

\* C37: as many call results are sent to the channel as the loop takes, one
\* for each request and one for each stored response, and the channel has
\* room for them all; so requestBid, once it waits for call results,
\* returns, has taken each call result once and leaves no task waiting to
\* send, in every order of the tasks and also with one request made in
\* line and stored responses.
ChannelIsDrained ==
    /\ []ChannelHoldsEveryResult
    /\ (at = "drain") ~> (at = "returned")

ChannelIsDrainedWitness ==
    /\ at = "returned"
    /\ Len(adapter.MakeRequests.reqData) = 1
    /\ Cardinality(DOMAIN bidderRequest.BidderStoredResponses) = 2
    /\ responseChannel = [cap |-> 3, buf |-> <<>>]
    /\ Len(received) = 3
    /\ received[1].request.Uri = Uri(1)
    /\ received[2].request.Body = <<ImpIdReqBody, "imp-2", ImpIdReqBody, "imp-1">>
    /\ tasks = {}

\* ------------------------------------------------------------------------
\* Properties of the bidder stages called side by side
\* ------------------------------------------------------------------------
\* The executions whose outcome has been stored in the list.
Pushed == {x \in DOMAIN executions : executions[x].at \in {"appended", "returned"}
                                         /\ executions[x].outcome # NoOutcome}

\* The outcomes of the bidder stages in the list, in their order.
BidderOutcomes == SelectSeq(stageOutcomes, LAMBDA o : o.Stage \in BidderStages)

\* C35: when bidder stages run side by side on one executor, every
\* execution with a plan appends its outcome once and no outcome is lost,
\* doubled or overwritten: the list holds the outcomes it had before, then
\* one outcome for each execution that has appended, and when all have
\* returned one for each execution with a plan.
EveryExecutionAppendsOnce ==
    /\ \A x \in Pushed :
          Cardinality({k \in 1..Len(stageOutcomes) :
                          stageOutcomes[k] = executions[x].outcome}) = 1
    /\ Len(BidderOutcomes) = Cardinality(Pushed)
    /\ \E e \in {NewHookExecutor, AfterEntrypoint} :
          /\ Len(stageOutcomes) = Len(e.stageOutcomes) + Cardinality(Pushed)
          /\ SubSeq(stageOutcomes, 1, Len(e.stageOutcomes)) = e.stageOutcomes
    /\ (\A x \in DOMAIN executions : executions[x].at = "returned") =>
          Len(BidderOutcomes) =
              Cardinality({x \in DOMAIN executions :
                              ~IsEmptyPlan(PlanForBidderStage(planBuilder,
                                                              executions[x].stage))})

EveryExecutionAppendsOnceWitness ==
    /\ DOMAIN executions = 1..2
    /\ \A x \in 1..2 : executions[x].at = "returned"
    /\ planBuilder = BidderStagesPlanBuilder
    /\ Len(stageOutcomes) = 3
    /\ stageOutcomes[1].Stage = StageEntrypoint
    /\ stageOutcomes[2].Entity = "bidder-b"
    /\ stageOutcomes[3].Entity = "bidder-a"
    /\ stageOutcomes[2].Stage = StageRawBidderResponse
    /\ stageOutcomes[3].Stage = StageBidderRequest

\* ------------------------------------------------------------------------
\* The extension made of the stage outcomes
\* ------------------------------------------------------------------------
\* The trace level the request asks for, "" when it asks for none.
RequestedTrace ==
    IF bidRequest # NilBidRequest /\ "trace" \in DOMAIN bidRequest.Ext
    THEN bidRequest.Ext.trace ELSE ""

\* The n-th extension has a trace block.
HasTrace(n) ==
    /\ "prebid.modules" \in DOMAIN ext[n]
    /\ ext[n]["prebid.modules"].Trace # NoTrace

\* The stage outcomes listed in the trace of the n-th extension.
TracedOutcomes(n) ==
    LET stages == ext[n]["prebid.modules"].Trace.Stages
    IN UNION {{stages[s].Outcomes[o] : o \in 1..Len(stages[s].Outcomes)} :
                 s \in 1..Len(stages)}

\* The hook outcomes of a set of stage outcomes.
HooksOf(outcomes) ==
    UNION {UNION {{o.Groups[g].InvocationResults[i] :
                      i \in 1..Len(o.Groups[g].InvocationResults)} :
                     g \in 1..Len(o.Groups)} : o \in outcomes}

\* The stage outcomes the first call was given that have groups.
GivenWithGroups == {before[k] : k \in {j \in 1..Len(before) : Len(before[j].Groups) > 0}}

\* C31: an extension has a trace block exactly when the request asks for the
\* level basic or verbose and a stage outcome has groups; at the level basic
\* no hook outcome of the trace has debug messages or analytics tags, and at
\* the level verbose the trace lists the stage outcomes as they were
\* recorded, debug messages and analytics tags included.
TraceFollowsLevel ==
    \A n \in 1..Len(ext) :
        /\ HasTrace(n) <=> /\ RequestedTrace \in {"basic", "verbose"}
                           /\ GivenWithGroups # {}
        /\ (HasTrace(n) /\ RequestedTrace = "basic")
              => \A h \in HooksOf(TracedOutcomes(n)) :
                    h.DebugMessages = <<>> /\ h.AnalyticsTags = <<>>
        /\ (HasTrace(n) /\ RequestedTrace = "verbose")
              => TracedOutcomes(n) = GivenWithGroups

\* A trace of the level basic was made of a hook outcome that has debug
\* messages and analytics tags, and one of the level verbose can be made.
TraceFollowsLevelWitness ==
    /\ Len(ext) = 2
    /\ RequestedTrace = "basic"
    /\ HasTrace(1) /\ HasTrace(2)
    /\ \E h \in HooksOf(GivenWithGroups) :
          h.DebugMessages # <<>> /\ h.AnalyticsTags # <<>>
    /\ Len(before) = 2

\* A trace of the level verbose that has debug messages and analytics tags.
VerboseTraceWitness ==
    /\ Len(ext) >= 1
    /\ RequestedTrace = "verbose"
    /\ HasTrace(1)
    /\ \E h \in HooksOf(TracedOutcomes(1)) :
          h.DebugMessages # <<>> /\ h.AnalyticsTags # <<>>

\* Debug is enabled: the request has the test flag or the debug flag of its
\* extension, and there is an account that allows debug.
DebugIsEnabled ==
    /\ bidRequest # NilBidRequest
    /\ account # NilAccount
    /\ \/ bidRequest.Test = 1
       \/ "debug" \in DOMAIN bidRequest.Ext /\ bidRequest.Ext.debug
    /\ account.DebugAllow

\* The hook outcomes of a list of stage outcomes, in the order they ran.
RECURSIVE HookOutcomesIn(_)
HookOutcomesIn(outcomes) ==
    IF outcomes = <<>> THEN <<>>
    ELSE InvocationResultsOf(Head(outcomes).Groups) \o HookOutcomesIn(Tail(outcomes))

\* The texts of a kind (Errors or Warnings) of the hook in a list of hook
\* outcomes, in the order of the list.
RECURSIVE TextsOf(_, _, _)
TextsOf(hookOutcomes, id, kind) ==
    IF hookOutcomes = <<>> THEN <<>>
    ELSE (IF Head(hookOutcomes).HookID = id THEN Head(hookOutcomes)[kind] ELSE <<>>)
         \o TextsOf(Tail(hookOutcomes), id, kind)

\* The messages of a kind in the n-th extension, and those of a hook.
EmittedMessages(n, kind) ==
    IF "prebid.modules" \in DOMAIN ext[n] THEN ext[n]["prebid.modules"][kind] ELSE <<>>

EmittedOf(n, kind, id) ==
    LET messages == EmittedMessages(n, kind)
    IN IF id.ModuleCode \in DOMAIN messages
       THEN IF id.HookCode \in DOMAIN messages[id.ModuleCode]
            THEN messages[id.ModuleCode][id.HookCode] ELSE <<>>
       ELSE <<>>

\* The hooks that ran or have messages in the n-th extension.
HookIDsOf(n, kind) ==
    {h.HookID : h \in HooksOf({before[k] : k \in 1..Len(before)})}
    \cup UNION {{[ModuleCode |-> m, HookCode |-> c] :
                    c \in DOMAIN EmittedMessages(n, kind)[m]} :
                   m \in DOMAIN EmittedMessages(n, kind)}

\* C32: an extension has errors and warnings only when debug is enabled;
\* then it has, under the module code and the hook code of every hook, the
\* errors and the warnings of all the invocations of the hook in the order
\* of the invocations, and no entry for a hook without any.
MessagesFollowDebug ==
    \A n \in 1..Len(ext) : \A kind \in {"Errors", "Warnings"} :
        /\ ~DebugIsEnabled => EmittedMessages(n, kind) = <<>>
        /\ DebugIsEnabled =>
              \A id \in HookIDsOf(n, kind) :
                 /\ EmittedOf(n, kind, id) = TextsOf(HookOutcomesIn(before), id, kind)
                 /\ id.ModuleCode \in DOMAIN EmittedMessages(n, kind)
                       => \A c \in DOMAIN EmittedMessages(n, kind)[id.ModuleCode] :
                             EmittedMessages(n, kind)[id.ModuleCode][c] # <<>>

\* The errors of two invocations of one hook, for two bidders, are in the
\* extension, next to the errors of another module.
MessagesFollowDebugWitness ==
    /\ Len(ext) = 2
    /\ DebugIsEnabled
    /\ bidRequest.Test = 0
    /\ EmittedOf(2, "Errors", [ModuleCode |-> "foobar", HookCode |-> "foo"])
          = <<"error-4", "error-1">>
    /\ EmittedOf(2, "Errors", [ModuleCode |-> "module-2", HookCode |-> "mut"])
          = <<"error-3">>
    /\ EmittedOf(2, "Warnings", [ModuleCode |-> "foobar", HookCode |-> "bar"])
          = <<"warning-2">>

\* The names of a list without the repetitions, in the order in which each
\* name occurs first.
RECURSIVE FirstOccurrences(_)
FirstOccurrences(names) ==
    IF names = <<>> THEN <<>>
    ELSE LET front == FirstOccurrences(SubSeq(names, 1, Len(names) - 1))
             name == names[Len(names)]
         IN IF \E i \in 1..Len(front) : front[i] = name THEN front
            ELSE Append(front, name)

StageNamesIn(outcomes) == [k \in 1..Len(outcomes) |-> outcomes[k].Stage]

\* Whose outcome of which stage it is, and how long the stage took.
Recorded(outcomes) ==
    [k \in 1..Len(outcomes) |->
        [Entity |-> outcomes[k].Entity, Stage |-> outcomes[k].Stage,
         ExecutionTimeMillis |-> outcomes[k].ExecutionTimeMillis]]

\* The trace of the n-th extension lists the stages of the outcomes once
\* each, in the order of first occurrence, with the outcomes of each stage
\* in the order of the list.
TraceListsStagesOf(n, outcomes) ==
    LET stages == ext[n]["prebid.modules"].Trace.Stages
    IN /\ StageNamesIn(stages) = FirstOccurrences(StageNamesIn(outcomes))
       /\ \A s \in 1..Len(stages) :
             Recorded(stages[s].Outcomes)
                = Recorded(SelectSeq(outcomes, LAMBDA o : o.Stage = stages[s].Stage))

\* C33: in the trace, each stage name of the list of stage outcomes appears
\* once, in the order in which each name first occurs in the list, and
\* every outcome of a stage is listed under it in the order it was
\* recorded.
TraceListsEveryStageOutcome ==
    \A n \in 1..Len(ext) : HasTrace(n) => TraceListsStagesOf(n, before)

\* The list has the outcome of the bidder request stage of a bidder, the
\* outcome of the raw bidder response stage of that bidder and the outcome
\* of the bidder request stage of another bidder: the trace has the bidder
\* request stage first, with the outcomes of the two bidders in the order
\* of the list, and the raw bidder response stage after it.
TraceListsEveryStageOutcomeWitness ==
    /\ Len(ext) = 2
    /\ HasTrace(1) /\ HasTrace(2)
    /\ Len(before) = 3
    /\ StageNamesIn(before)
          = <<StageBidderRequest, StageRawBidderResponse, StageBidderRequest>>
    /\ before[1].Entity = "bidder-a" /\ before[3].Entity = "bidder-b"
    /\ LET stages == ext[2]["prebid.modules"].Trace.Stages
       IN /\ StageNamesIn(stages) = <<StageBidderRequest, StageRawBidderResponse>>
          /\ Len(stages[1].Outcomes) = 2
          /\ stages[1].Outcomes[1].Entity = "bidder-a"
          /\ stages[1].Outcomes[2].Entity = "bidder-b"
          /\ Len(stages[2].Outcomes) = 1

\* C40 (as stated): after EnrichExtBidResponse every hook outcome of the
\* caller's list has the debug messages and the analytics tags it had
\* before the call, whatever the trace level and the debug setting.
OutcomesAreLeftUnchanged ==
    Len(ext) >= 1 => stageOutcomes = before

\* The stage outcomes are the ones given, except that the debug messages
\* and the analytics tags of the hook outcomes may be cleared.
ClearedOf(outcomes) ==
    [k \in 1..Len(outcomes) |->
        [outcomes[k] EXCEPT !.Groups =
            [g \in 1..Len(@) |->
                [@[g] EXCEPT !.InvocationResults =
                    [i \in 1..Len(@) |->
                        [@[i] EXCEPT !.DebugMessages = <<>>,
                                     !.AnalyticsTags = <<>>]]]]]]

\* What does hold: the list is left as it was for the level verbose, and
\* for every other level with the debug messages and the analytics tags of
\* every hook outcome cleared; a second call returns the modules of the
\* first.
OutcomesAreClearedBelowVerbose ==
    /\ Len(ext) >= 1 =>
          stageOutcomes = IF RequestedTrace = "verbose" THEN before
                          ELSE ClearedOf(before)
    /\ Len(ext) = 2 =>
          /\ "prebid.modules" \in DOMAIN ext[1] <=> "prebid.modules" \in DOMAIN ext[2]
          /\ "prebid.modules" \in DOMAIN ext[1]
                => ext[2]["prebid.modules"] = ext[1]["prebid.modules"]


\* The configured groups of the three scopes for the stage and the endpoint
\* of the plan that was built.
HostGroupsOfPlan ==
    CfgGroupsOf(planBuilder.hooks.HostExecutionPlan, executionCtx.endpoint,
                executionCtx.stage)

DefaultAccountGroupsOfPlan ==
    CfgGroupsOf(planBuilder.hooks.DefaultAccountExecutionPlan, executionCtx.endpoint,
                executionCtx.stage)

AccountGroupsOfPlan ==
    IF account = NilAccount THEN <<>>
    ELSE CfgGroupsOf(account.Hooks.ExecutionPlan, executionCtx.endpoint,
                     executionCtx.stage)

\* The groups of a scope as they are in a plan.
InPlan(cfgGroups) == getGroups(planBuilder.repo, executionCtx.stage, cfgGroups)

\* C34: the plan built for a stage and an endpoint is the groups of the
\* host for them, followed by the groups of the account when the account
\* has any for them and otherwise by the groups of the default account; the
\* groups of a scope and the hooks of a group are in the configured order,
\* and no group of the default account is in a plan made with groups of the
\* account.
PlanIsHostThenAccountOrDefault ==
    pc = "planned" =>
        \E h \in 0..Len(plan) :
            /\ SubSeq(plan, 1, h) = InPlan(HostGroupsOfPlan)
            /\ SubSeq(plan, h + 1, Len(plan))
                  = IF Len(AccountGroupsOfPlan) > 0 THEN InPlan(AccountGroupsOfPlan)
                    ELSE InPlan(DefaultAccountGroupsOfPlan)

\* The plan of TestPlanForRawAuctionStage: one group of the host, then the
\* group of the account, while the default account has two groups.
PlanIsHostThenAccountOrDefaultWitness ==
    /\ pc = "planned"
    /\ Len(HostGroupsOfPlan) = 1
    /\ Len(DefaultAccountGroupsOfPlan) = 2
    /\ Len(AccountGroupsOfPlan) = 1
    /\ plan = <<[Timeout |-> 5, Hooks |-> <<[Module |-> "foobar", Code |-> "foo"]>>],
                [Timeout |-> 15, Hooks |-> <<[Module |-> "prebid", Code |-> "baz"]>>]>>

\* The plan of the same test for an account without a plan: the group of
\* the host, then the two groups of the default account.
PlanWithDefaultAccountWitness ==
    /\ pc = "planned"
    /\ account # NilAccount
    /\ Len(AccountGroupsOfPlan) = 0
    /\ plan = <<[Timeout |-> 5, Hooks |-> <<[Module |-> "foobar", Code |-> "foo"]>>],
                [Timeout |-> 10,
                 Hooks |-> <<[Module |-> "foobar", Code |-> "bar"],
                             [Module |-> "ortb2blocking", Code |-> "block_request"]>>],
                [Timeout |-> 5, Hooks |-> <<[Module |-> "foobar", Code |-> "foo"]>>]>>

====
